---------------------------- MODULE Spec2Model ----------------------------
(***************************************************************************)
(* REVELATION: the concurrent scan orchestrator (revelation-core/scan.rs), *)
(* the API classifier and risk scorer (analysis/api_classifier.rs,         *)
(* analysis/api_score.rs) and the finding scorer (report.rs).              *)
(*                                                                         *)
(* Strings that the code inspects by substring containment are modelled    *)
(* as sequences of one-character strings, so that to_ascii_lowercase and   *)
(* str::contains are computed and not assumed.                             *)
(***************************************************************************)
EXTENDS Integers, Sequences, FiniteSets, TLC

(* ------------------------------ bounds -------------------------------- *)
\* longest import list handed to the API risk scorer
MaxImports == 2
\* longest match list handed to the finding scorer
MaxMatches == 3
\* most string hits one rule match carries
MaxHits == 2
\* most directory entries the walk yields below the root
MaxEntries == 2
\* largest worker count the caller passes / largest default pool
MaxThreads == 2
\* most background jobs the GUI starts
MaxJobs == 3
\* most files a scan job of the GUI reports progress for
MaxFiles == 1

(* ------------------------- machine integers --------------------------- *)
(* u32 and u64 values are little-endian sequences of 16-bit limbs (two and *)
(* four of them), so that wrapping and saturation happen at the widths of  *)
(* the code.                                                               *)
\* the base of a limb
Limb == 2^16
\* limbs of a u32
W32 == 32 \div 16
\* limbs of a u64
W64 == 64 \div 16

Min(a, b) == IF a <= b THEN a ELSE b

\* the w-limb value of a natural number below 2^31
ToLimbs(n, w) ==
  [k \in 1..w |-> IF k = 1 THEN n % Limb ELSE IF k = 2 THEN n \div Limb ELSE 0]

\* the w-limb value with every bit set: u32::MAX, u64::MAX
MaxLimbs(w) == [k \in 1..w |-> Limb - 1]

\* a value that fits one limb, as a natural number
IsSmall(a) == \A k \in 2..Len(a) : a[k] = 0

RECURSIVE AddFrom(_, _, _, _)
\* limbs k.. of a + b + carry, followed by the carry out of the top limb
AddFrom(a, b, k, carry) ==
  IF k > Len(a) THEN <<carry>>
  ELSE LET t == a[k] + b[k] + carry
       IN  <<t % Limb>> \o AddFrom(a, b, k + 1, t \div Limb)

RECURSIVE MulFrom(_, _, _, _)
\* limbs k.. of a * m + carry for a factor m below 2^15, followed by the carry out
MulFrom(a, m, k, carry) ==
  IF k > Len(a) THEN <<carry>>
  ELSE LET t == a[k] * m + carry
       IN  <<t % Limb>> \o MulFrom(a, m, k + 1, t \div Limb)

\* wrapping_add: the carry out of the top limb is dropped
WrappingAdd(a, b) == SubSeq(AddFrom(a, b, 1, 0), 1, Len(a))

\* saturating_add
SaturatingAdd(a, b) ==
  LET r == AddFrom(a, b, 1, 0)
  IN  IF r[Len(a) + 1] = 0 THEN SubSeq(r, 1, Len(a)) ELSE MaxLimbs(Len(a))

\* saturating_mul by a factor below 2^15
SaturatingMul(a, m) ==
  LET r == MulFrom(a, m, 1, 0)
  IN  IF r[Len(a) + 1] = 0 THEN SubSeq(r, 1, Len(a)) ELSE MaxLimbs(Len(a))

RECURSIVE LessFrom(_, _, _)
\* a < b, decided from limb k downwards
LessFrom(a, b, k) ==
  IF k = 0 THEN FALSE
  ELSE IF a[k] # b[k] THEN a[k] < b[k]
  ELSE LessFrom(a, b, k - 1)

Less(a, b) == LessFrom(a, b, Len(a))

\* a.min(m) for a natural number m below 2^16
MinSmall(a, m) == IF IsSmall(a) /\ a[1] <= m THEN a[1] ELSE m

(* ----------------------------- strings -------------------------------- *)
RegistryNeedles ==
  << <<"r","e","g","s","e","t","v","a","l","u","e">>,
     <<"r","e","g","c","r","e","a","t","e","k","e","y">>,
     <<"r","e","g","o","p","e","n","k","e","y">> >>

ProcessNeedles ==
  << <<"c","r","e","a","t","e","p","r","o","c","e","s","s">>,
     <<"w","i","n","e","x","e","c">>,
     <<"s","h","e","l","l","e","x","e","c","u","t","e">> >>

InjectionNeedles ==
  << <<"c","r","e","a","t","e","r","e","m","o","t","e","t","h","r","e","a","d">>,
     <<"v","i","r","t","u","a","l","a","l","l","o","c","e","x">>,
     <<"w","r","i","t","e","p","r","o","c","e","s","s","m","e","m","o","r","y">>,
     <<"o","p","e","n","p","r","o","c","e","s","s">>,
     <<"s","e","t","t","h","r","e","a","d","c","o","n","t","e","x","t">>,
     <<"g","e","t","t","h","r","e","a","d","c","o","n","t","e","x","t">>,
     <<"r","e","s","u","m","e","t","h","r","e","a","d">>,
     <<"r","t","l","m","o","v","e","m","e","m","o","r","y">>,
     <<"n","t","u","n","m","a","p","v","i","e","w","o","f","s","e","c","t","i","o","n">>,
     <<"q","u","e","u","e","u","s","e","r","a","p","c">> >>

NetworkNeedles ==
  << <<"i","n","t","e","r","n","e","t","o","p","e","n">>,
     <<"i","n","t","e","r","n","e","t","c","o","n","n","e","c","t">>,
     <<"h","t","t","p","o","p","e","n","r","e","q","u","e","s","t">>,
     <<"h","t","t","p","s","e","n","d","r","e","q","u","e","s","t">>,
     <<"i","n","t","e","r","n","e","t","r","e","a","d","f","i","l","e">>,
     <<"u","r","l","d","o","w","n","l","o","a","d","t","o","f","i","l","e">>,
     <<"w","i","n","h","t","t","p","o","p","e","n">>,
     <<"w","i","n","h","t","t","p","s","e","n","d","r","e","q","u","e","s","t">>,
     <<"w","i","n","h","t","t","p","r","e","c","e","i","v","e","r","e","s","p","o","n","s","e">>,
     <<"w","s","a","s","t","a","r","t","u","p">>,
     <<"c","o","n","n","e","c","t">>,
     <<"r","e","c","v">>,
     <<"s","e","n","d">> >>

CryptoNeedles ==
  << <<"c","r","y","p","t","a","c","q","u","i","r","e","c","o","n","t","e","x","t">>,
     <<"c","r","y","p","t","e","n","c","r","y","p","t">>,
     <<"c","r","y","p","t","d","e","c","r","y","p","t">>,
     <<"b","c","r","y","p","t">>,
     <<"b","c","r","y","p","t","e","n","c","r","y","p","t">>,
     <<"b","c","r","y","p","t","d","e","c","r","y","p","t">> >>

AntiDebugNeedles ==
  << <<"i","s","d","e","b","u","g","g","e","r","p","r","e","s","e","n","t">>,
     <<"c","h","e","c","k","r","e","m","o","t","e","d","e","b","u","g","g","e","r","p","r","e","s","e","n","t">>,
     <<"n","t","q","u","e","r","y","i","n","f","o","r","m","a","t","i","o","n","p","r","o","c","e","s","s">> >>

HighSignalNeedles ==
  << <<"c","r","e","a","t","e","r","e","m","o","t","e","t","h","r","e","a","d">>,
     <<"w","r","i","t","e","p","r","o","c","e","s","s","m","e","m","o","r","y">>,
     <<"v","i","r","t","u","a","l","a","l","l","o","c","e","x">> >>

DownloadNeedles ==
  << <<"u","r","l","d","o","w","n","l","o","a","d","t","o","f","i","l","e">>,
     <<"h","t","t","p","s","e","n","d","r","e","q","u","e","s","t">> >>

s_advapi32 == <<"a","d","v","a","p","i","3","2">>

s_kernel32 == <<"k","e","r","n","e","l","3","2">>

s_wininet == <<"w","i","n","i","n","e","t">>

s_winhttp == <<"w","i","n","h","t","t","p">>

s_ws2_32 == <<"w","s","2","_","3","2">>

imp_CreateRemoteThread ==
  [dll |-> <<"k","e","r","n","e","l","3","2",".","d","l","l">>,
   name |-> <<<<"C","r","e","a","t","e","R","e","m","o","t","e","T","h","r","e","a","d">>>>,
   is_ordinal |-> FALSE, ordinal |-> <<>>]

imp_CreateProcessA ==
  [dll |-> <<"K","E","R","N","E","L","3","2",".","d","l","l">>,
   name |-> <<<<"C","r","e","a","t","e","P","r","o","c","e","s","s","A">>>>,
   is_ordinal |-> FALSE, ordinal |-> <<>>]

imp_WinExecOpenProcess ==
  [dll |-> <<"k","e","r","n","e","l","3","2",".","d","l","l">>,
   name |-> <<<<"W","i","n","E","x","e","c","_","O","p","e","n","P","r","o","c","e","s","s">>>>,
   is_ordinal |-> FALSE, ordinal |-> <<>>]

imp_OpenProcess ==
  [dll |-> <<"k","e","r","n","e","l","3","2",".","d","l","l">>,
   name |-> <<<<"O","p","e","n","P","r","o","c","e","s","s">>>>,
   is_ordinal |-> FALSE, ordinal |-> <<>>]

imp_IsDebuggerPresent ==
  [dll |-> <<"k","e","r","n","e","l","3","2",".","d","l","l">>,
   name |-> <<<<"I","s","D","e","b","u","g","g","e","r","P","r","e","s","e","n","t">>>>,
   is_ordinal |-> FALSE, ordinal |-> <<>>]

imp_RegSetValueExA ==
  [dll |-> <<"A","D","V","A","P","I","3","2",".","d","l","l">>,
   name |-> <<<<"R","e","g","S","e","t","V","a","l","u","e","E","x","A">>>>,
   is_ordinal |-> FALSE, ordinal |-> <<>>]

imp_RegOpenKeyResumeThread ==
  [dll |-> <<"a","d","v","a","p","i","3","2",".","d","l","l">>,
   name |-> <<<<"R","e","g","O","p","e","n","K","e","y","_","R","e","s","u","m","e","T","h","r","e","a","d">>>>,
   is_ordinal |-> FALSE, ordinal |-> <<>>]

imp_CryptEncrypt ==
  [dll |-> <<"a","d","v","a","p","i","3","2",".","d","l","l">>,
   name |-> <<<<"C","r","y","p","t","E","n","c","r","y","p","t">>>>,
   is_ordinal |-> FALSE, ordinal |-> <<>>]

imp_VirtualAllocEx ==
  [dll |-> <<"n","t","d","l","l",".","d","l","l">>,
   name |-> <<<<"V","i","r","t","u","a","l","A","l","l","o","c","E","x">>>>,
   is_ordinal |-> FALSE, ordinal |-> <<>>]

imp_WriteProcessMemory ==
  [dll |-> <<"n","t","d","l","l",".","d","l","l">>,
   name |-> <<<<"W","r","i","t","e","P","r","o","c","e","s","s","M","e","m","o","r","y">>>>,
   is_ordinal |-> FALSE, ordinal |-> <<>>]

imp_InternetOpenA ==
  [dll |-> <<"w","i","n","i","n","e","t",".","d","l","l">>,
   name |-> <<<<"I","n","t","e","r","n","e","t","O","p","e","n","A">>>>,
   is_ordinal |-> FALSE, ordinal |-> <<>>]

imp_URLDownloadToFileA ==
  [dll |-> <<"u","r","l","m","o","n",".","d","l","l">>,
   name |-> <<<<"U","R","L","D","o","w","n","l","o","a","d","T","o","F","i","l","e","A">>>>,
   is_ordinal |-> FALSE, ordinal |-> <<>>]

imp_MessageBoxA ==
  [dll |-> <<"u","s","e","r","3","2",".","d","l","l">>,
   name |-> <<<<"M","e","s","s","a","g","e","B","o","x","A">>>>,
   is_ordinal |-> FALSE, ordinal |-> <<>>]

imp_FtpPutFileA ==
  [dll |-> <<"W","I","N","I","N","E","T",".","d","l","l">>,
   name |-> <<<<"F","t","p","P","u","t","F","i","l","e","A">>>>,
   is_ordinal |-> FALSE, ordinal |-> <<>>]

imp_Ordinal115 ==
  [dll |-> <<"W","S","2","_","3","2",".","d","l","l">>,
   name |-> <<>>,
   is_ordinal |-> TRUE, ordinal |-> <<115>>]

UpperCase == <<"A","B","C","D","E","F","G","H","I","J","K","L","M","N","O","P","Q","R","S","T","U","V","W","X","Y","Z">>

LowerCase == <<"a","b","c","d","e","f","g","h","i","j","k","l","m","n","o","p","q","r","s","t","u","v","w","x","y","z">>
msg_AccessDenied ==
  <<"I","O"," ","e","r","r","o","r",":"," ","A","c","c","e","s","s"," ","i","s"," ","d","e","n","i","e","d","."," ","(","o","s"," ","e","r","r","o","r"," ","5",")">>

msg_PermissionDenied ==
  <<"I","O"," ","e","r","r","o","r",":"," ","P","e","r","m","i","s","s","i","o","n"," ","d","e","n","i","e","d"," ","(","o","s"," ","e","r","r","o","r"," ","1","3",")">>

msg_NotFound ==
  <<"I","O"," ","e","r","r","o","r",":"," ","N","o"," ","s","u","c","h"," ","f","i","l","e"," ","o","r"," ","d","i","r","e","c","t","o","r","y"," ","(","o","s"," ","e","r","r","o","r"," ","2",")">>

s_access_is_denied ==
  <<"a","c","c","e","s","s"," ","i","s"," ","d","e","n","i","e","d">>

s_permission_denied ==
  <<"p","e","r","m","i","s","s","i","o","n"," ","d","e","n","i","e","d">>

\* char::to_ascii_lowercase
CharLower(c) ==
  IF \E k \in 1..Len(UpperCase) : UpperCase[k] = c
  THEN LowerCase[CHOOSE k \in 1..Len(UpperCase) : UpperCase[k] = c]
  ELSE c

\* str::to_ascii_lowercase
to_ascii_lowercase(s) == [k \in 1..Len(s) |-> CharLower(s[k])]

\* str::contains(&str): the needle occurs as a contiguous substring
Contains(s, n) ==
  \E k \in 0..(Len(s) - Len(n)) : SubSeq(s, k + 1, k + Len(n)) = n

\* ApiImport::dll_lower
dll_lower(imp) == to_ascii_lowercase(imp.dll)

\* ApiImport::name_lower: None becomes the empty string
name_lower(imp) ==
  IF imp.name = <<>> THEN <<>> ELSE to_ascii_lowercase(imp.name[1])

(* -------------------------- API classifier ---------------------------- *)
\* has_any: some needle is contained in api
has_any(api, needles) == \E k \in 1..Len(needles) : Contains(api, needles[k])

\* rule 2: registry-write symbol under advapi32
RegistryRule(dll, api) == Contains(dll, s_advapi32) /\ has_any(api, RegistryNeedles)

\* a process rule that takes every kernel32 import for a process launch
ProcessRule_AnyKernel32(dll, api) == Contains(dll, s_kernel32)

\* rule 3: process-launch symbol under kernel32
ProcessRule(dll, api) == Contains(dll, s_kernel32) /\ has_any(api, ProcessNeedles)

\* rule 4: injection primitive, whatever the library
InjectionRule(api) == has_any(api, InjectionNeedles)

\* rule 5: networking symbol, or a networking library
NetworkRule(dll, api) ==
  \/ has_any(api, NetworkNeedles)
  \/ Contains(dll, s_wininet)
  \/ Contains(dll, s_winhttp)
  \/ Contains(dll, s_ws2_32)

\* rule 6
CryptoRule(api) == has_any(api, CryptoNeedles)

\* rule 7
AntiDebugRule(api) == has_any(api, AntiDebugNeedles)

Verdict(cat, sus, reasons) ==
  [category |-> cat, suspicious |-> sus, reasons |-> reasons]

\* a classifier that tries the injection rule before the registry and the
\* process rule
classify_one_injection_first(imp) ==
  LET dll == dll_lower(imp)
      api == name_lower(imp)
  IN  IF imp.is_ordinal THEN Verdict("Other", TRUE, <<"Import by ordinal">>)
      ELSE IF InjectionRule(api)
        THEN Verdict("ProcessInjection", TRUE, <<"Common injection primitive">>)
      ELSE IF RegistryRule(dll, api)
        THEN Verdict("Registry", TRUE, <<"Registry modification">>)
      ELSE IF ProcessRule(dll, api)
        THEN Verdict("Process", TRUE, <<"Process execution">>)
      ELSE IF NetworkRule(dll, api)
        THEN Verdict("Networking", TRUE, <<"Network capability">>)
      ELSE IF CryptoRule(api)
        THEN Verdict("Crypto", TRUE, <<"Crypto API usage">>)
      ELSE IF AntiDebugRule(api)
        THEN Verdict("AntiDebug", TRUE, <<"Anti-debug technique">>)
      ELSE Verdict("Other", FALSE, <<>>)

\* classify_one: the first rule that matches decides
classify_one(imp) ==
  LET dll == dll_lower(imp)
      api == name_lower(imp)
  IN  IF imp.is_ordinal THEN Verdict("Other", TRUE, <<"Import by ordinal">>)
      ELSE IF RegistryRule(dll, api)
        THEN Verdict("Registry", TRUE, <<"Registry modification">>)
      ELSE IF ProcessRule(dll, api)
        THEN Verdict("Process", TRUE, <<"Process execution">>)
      ELSE IF InjectionRule(api)
        THEN Verdict("ProcessInjection", TRUE, <<"Common injection primitive">>)
      ELSE IF NetworkRule(dll, api)
        THEN Verdict("Networking", TRUE, <<"Network capability">>)
      ELSE IF CryptoRule(api)
        THEN Verdict("Crypto", TRUE, <<"Crypto API usage">>)
      ELSE IF AntiDebugRule(api)
        THEN Verdict("AntiDebug", TRUE, <<"Anti-debug technique">>)
      ELSE Verdict("Other", FALSE, <<>>)

\* classify_imports: one ClassifiedImport per import, in input order
classify_imports(imps) ==
  [k \in 1..Len(imps) |->
     LET v == classify_one(imps[k])
     IN  [api |-> imps[k], category |-> v.category,
          suspicious |-> v.suspicious, reasons |-> v.reasons]]

(* ------------------------- API risk scorer ---------------------------- *)
\* the number of findings kept in ApiAnalysisResult.top
TopCap == 50

\* thresholds that leave out the boundary values 85 and 60
sev_from_score_above(score) ==
  IF score > 85 THEN "High"
  ELSE IF score > 60 THEN "Medium"
  ELSE IF score > 0 THEN "Low"
  ELSE "None"

\* sev_from_score
sev_from_score(score) ==
  IF score >= 85 THEN "High"
  ELSE IF score >= 60 THEN "Medium"
  ELSE IF score > 0 THEN "Low"
  ELSE "None"

\* base_points: the weight of a category
base_points(cat) ==
  CASE cat = "ProcessInjection" -> 45
    [] cat = "CredentialAccess" -> 40
    [] cat = "Persistence" -> 35
    [] cat = "CommandAndControl" -> 30
    [] cat = "Exfiltration" -> 30
    [] cat = "DefenseEvasion" -> 28
    [] cat = "PrivilegeEscalation" -> 28
    [] cat = "Networking" -> 22
    [] cat = "Crypto" -> 18
    [] cat = "Registry" -> 18
    [] cat = "Process" -> 16
    [] cat = "AntiDebug" -> 16
    [] OTHER -> 8

\* a bonus without the 20 points of the high-signal injection primitives
bonus_for_no_high_signal(imp) ==
  IF imp.is_ordinal THEN 12
  ELSE IF has_any(name_lower(imp), DownloadNeedles) THEN 10
  ELSE 0

\* bonus_for
bonus_for(imp) ==
  IF imp.is_ordinal THEN 12
  ELSE LET a == name_lower(imp)
       IN  IF has_any(a, HighSignalNeedles) THEN 20
           ELSE IF has_any(a, DownloadNeedles) THEN 10
           ELSE 0

\* points of one suspicious import: base.saturating_add(bonus).min(100)
finding_points(c) ==
  MinSmall(SaturatingAdd(ToLimbs(base_points(c.category), W32),
                         ToLimbs(bonus_for(c.api), W32)), 100)

\* the ApiFinding pushed for one suspicious classified import
make_finding(c) ==
  LET b == bonus_for(c.api)
  IN  [api |-> c.api, category |-> c.category, score |-> finding_points(c),
       reasons |-> IF b > 0 THEN Append(c.reasons, "High-signal API")
                   ELSE c.reasons]

IsSuspicious(c) == c.suspicious

\* a loop that makes a finding of every import, suspicious or not
collect_findings_all(classified) ==
  [k \in 1..Len(classified) |-> make_finding(classified[k])]

\* the findings vector after the loop: suspicious imports in input order
collect_findings(classified) ==
  LET sus == SelectSeq(classified, IsSuspicious)
  IN  [k \in 1..Len(sus) |-> make_finding(sus[k])]

RECURSIVE SumPointsIn(_, _, _, _)
\* the wrapping sum of the points that findings lo..hi add to cat (the sum
\* is split in halves: addition modulo 2^32 does not depend on the grouping)
SumPointsIn(fs, cat, lo, hi) ==
  IF lo > hi THEN ToLimbs(0, W32)
  ELSE IF lo = hi
       THEN ToLimbs(IF fs[lo].category = cat THEN fs[lo].score ELSE 0, W32)
       ELSE LET mid == (lo + hi) \div 2
            IN  WrappingAdd(SumPointsIn(fs, cat, lo, mid),
                            SumPointsIn(fs, cat, mid + 1, hi))

\* the value `*category_scores.entry(cat).or_insert(0) += points` leaves for cat
SumPoints(fs, cat) == SumPointsIn(fs, cat, 1, Len(fs))

\* the keys of the category_scores HashMap
category_keys(fs) == {fs[k].category : k \in 1..Len(fs)}

\* the orders in which a HashMap over the keys K can be iterated: the
\* hasher is seeded per map (RandomState), so every order can come out
IterationOrders(K) ==
  {s \in [1..Cardinality(K) -> K] : \A a, b \in 1..Cardinality(K) : a # b => s[a] # s[b]}

\* a sort that puts the later of two elements with equal keys first
RankDesc_TiesReversed(keys, k) ==
  1 + Cardinality({j \in 1..Len(keys) :
                     \/ Less(keys[k], keys[j])
                     \/ j > k /\ keys[j] = keys[k]})

\* the place of s[k] after a stable descending sort: behind every element
\* with a larger key, and behind the earlier elements with an equal key
RankDesc(keys, k) ==
  1 + Cardinality({j \in 1..Len(keys) :
                     \/ Less(keys[k], keys[j])
                     \/ j < k /\ keys[j] = keys[k]})

\* slice::sort_by(|a, b| key(b).cmp(&key(a))), a stable sort; keys[k] is the
\* u32 key of s[k]
sort_by_desc(s, keys) ==
  LET rank == [k \in 1..Len(s) |-> RankDesc(keys, k)]
  IN  [p \in 1..Len(s) |-> s[CHOOSE k \in 1..Len(s) : rank[k] = p]]

\* the keys of findings.sort_by: b.score.cmp(&a.score)
finding_keys(fs) == [k \in 1..Len(fs) |-> ToLimbs(fs[k].score, W32)]

\* the keys of cats.sort_by: b.1.cmp(&a.1)
pair_keys(ps) == [k \in 1..Len(ps) |-> ps[k][2]]

\* Iterator::take(n).collect()
take(s, n) == SubSeq(s, 1, Min(n, Len(s)))

\* a total that is the largest category total and not the sum of them all
SumSeconds_Largest(ps) ==
  IF ps = <<>> THEN ToLimbs(0, W32) ELSE Head(ps)[2]

RECURSIVE SumSeconds(_)
\* res.category_scores.iter().map(|(_, v)| *v).sum::<u32>()
SumSeconds(ps) ==
  IF ps = <<>> THEN ToLimbs(0, W32)
  ELSE WrappingAdd(Head(ps)[2], SumSeconds(Tail(ps)))

\* a default result that claims an executable was parsed
default_result_pe ==
  [total_score |-> 0, severity |-> "None", imports_total |-> 0,
   suspicious_total |-> 0, top |-> <<>>, category_scores |-> <<>>,
   is_pe |-> TRUE, note |-> <<>>]

\* ApiAnalysisResult::default()
default_result ==
  [total_score |-> 0, severity |-> "None", imports_total |-> 0,
   suspicious_total |-> 0, top |-> <<>>, category_scores |-> <<>>,
   is_pe |-> FALSE, note |-> <<>>]

\* score(imports), with iter the order in which the HashMap is drained
score(imps, iter) ==
  IF imps = <<>>
  THEN [default_result EXCEPT !.note = <<"No imports extracted">>]
  ELSE
    LET findings == collect_findings(classify_imports(imps))
        sorted == sort_by_desc(findings, finding_keys(findings))
        drained == [k \in 1..Len(iter) |-> <<iter[k], SumPoints(findings, iter[k])>>]
        cats == sort_by_desc(drained, pair_keys(drained))
        total == MinSmall(SumSeconds(cats), 100)
    IN  [total_score |-> total,
         severity |-> sev_from_score(total),
         imports_total |-> Len(imps),
         suspicious_total |-> Len(sorted),
         top |-> take(sorted, TopCap),
         category_scores |-> cats,
         is_pe |-> TRUE,
         note |-> <<>>]

\* the results score(imports) can return
score_results(imps) ==
  {score(imps, iter) :
     iter \in IterationOrders(category_keys(collect_findings(classify_imports(imps))))}

(* -------------------------- finding scorer ---------------------------- *)
RECURSIVE SumStrings(_)
\* yara_matches.iter().map(|m| m.strings.len() as u32).sum::<u32>()
SumStrings(ms) ==
  IF ms = <<>> THEN ToLimbs(0, W32)
  ELSE WrappingAdd(ToLimbs(Len(Head(ms).strings), W32), SumStrings(Tail(ms)))

\* a rules term that counts the distinct rule ids and not the matches
rules_score_distinct(ms) ==
  SaturatingMul(ToLimbs(Cardinality({ms[k].rule : k \in 1..Len(ms)}), W32), 10)

\* (yara_matches.len() as u32).saturating_mul(10)
rules_score(ms) == SaturatingMul(ToLimbs(Len(ms), W32), 10)

\* a strings term that gives the string hits no points
strings_score_none(ms) == ToLimbs(0, W32)

\* the strings term
strings_score(ms) == SaturatingMul(SumStrings(ms), 2)

\* 50u32 + rules_score + strings_score: the wrapped sum, and whether one of
\* the two additions overflowed
finding_sum(rules, strings) ==
  LET a == AddFrom(ToLimbs(50, W32), rules, 1, 0)
      b == AddFrom(SubSeq(a, 1, W32), strings, 1, 0)
  IN  [val |-> SubSeq(b, 1, W32),
       overflow |-> a[W32 + 1] # 0 \/ b[W32 + 1] # 0]

\* score_finding
score_finding(ms) ==
  IF ms = <<>> THEN 0
  ELSE MinSmall(finding_sum(rules_score(ms), strings_score(ms)).val, 100)

\* .sum::<u32>() over a list of len matches with `each` string hits apiece:
\* the wrapped sum, and whether an addition overflowed (one of the two
\* counts is below 2^15)
sum_strings_of(len, each) ==
  LET r == IF IsSmall(each) /\ each[1] < Limb \div 2
           THEN MulFrom(len, each[1], 1, 0)
           ELSE MulFrom(each, len[1], 1, 0)
  IN  [val |-> SubSeq(r, 1, W32), overflow |-> r[W32 + 1] # 0]

\* score_finding on a list of len matches with `each` string hits apiece.
\* An overflowing `+` or sum panics in a build with overflow checks and
\* wraps in a build without them.
score_finding_outcomes(len, each) ==
  IF len = ToLimbs(0, W32) THEN {[panicked |-> FALSE, value |-> 0]}
  ELSE
    LET s == sum_strings_of(len, each)
        t == finding_sum(SaturatingMul(len, 10), SaturatingMul(s.val, 2))
        wrapped == [panicked |-> FALSE, value |-> MinSmall(t.val, 100)]
    IN  IF s.overflow \/ t.overflow
        THEN {wrapped, [panicked |-> TRUE, value |-> 0]}
        ELSE {wrapped}

\* export_csv: the label of a finding, from its score
csv_severity(f_score) ==
  IF f_score >= 85 THEN "HIGH" ELSE IF f_score >= 60 THEN "MED" ELSE "LOW"

(* ------------------------------ inputs -------------------------------- *)
\* imports the extractor can yield
ImportPool ==
  {imp_CreateRemoteThread, imp_CreateProcessA, imp_WinExecOpenProcess,
   imp_OpenProcess, imp_IsDebuggerPresent, imp_RegSetValueExA,
   imp_RegOpenKeyResumeThread, imp_CryptEncrypt, imp_VirtualAllocEx,
   imp_WriteProcessMemory, imp_InternetOpenA, imp_URLDownloadToFileA,
   imp_MessageBoxA, imp_FtpPutFileA, imp_Ordinal115}

SeqsUpTo(S, n) == UNION {[1..k -> S] : k \in 0..n}

\* import lists with more suspicious imports than score keeps findings
LongLists ==
  {[k \in 1..TopCap + 1 |-> imp_IsDebuggerPresent],
   [k \in 1..TopCap + 1 |->
      IF k <= TopCap THEN imp_CreateProcessA ELSE imp_VirtualAllocEx],
   [k \in 1..TopCap + 2 |->
      IF k % 2 = 1 THEN imp_CreateProcessA ELSE imp_IsDebuggerPresent]}

ImportLists == SeqsUpTo(ImportPool, MaxImports) \cup LongLists

\* a YaraStringMatch, reduced to its identifier
StringHits == SeqsUpTo({"$s"}, MaxHits)

\* YaraRuleMatch values: rule id, namespace, string hits
MatchPool ==
  [rule : {"R1", "R2"}, namespace : {"default", "ns2"}, strings : StringHits]

MatchLists == SeqsUpTo(MatchPool, MaxMatches)

\* match lists given by their counts: the number of matches, and the string
\* hits of each match
CountLens ==
  {ToLimbs(n, W32) : n \in {0, 1, 2, 3, 4, 5, 6, 429496724, 429496725,
                            429496729, 429496730, 2147483647}}
    \cup {MaxLimbs(W32)}

CountHits ==
  {ToLimbs(n, W32) : n \in {0, 1, 2, 3, 2147483617, 2147483618, 2147483647}}
    \cup {MaxLimbs(W32)}

CountInputs ==
  {c \in [len : CountLens, each : CountHits] :
     \/ IsSmall(c.each) /\ c.each[1] < Limb \div 2
     \/ IsSmall(c.len) /\ c.len[1] < Limb \div 2}

(* ------------------------------- state -------------------------------- *)
VARIABLES
  apiImports,   \* the import list under analysis
  apiPc,        \* "classify", "first", "second", "done"
  classified,   \* classify_imports(apiImports)
  resA,         \* the result of a first call of score
  resB,         \* the result of a second call of score on the same list
  fsMatches,    \* the match list handed to score_finding
  fsPc,         \* "call", "done"
  fsScore,      \* the value score_finding returned
  fcCounts,     \* a match list handed to score_finding, given by its counts
  fcPc,         \* "call", "done"
  fcOut         \* how that call ended: a panic, or the value returned

apiVars == <<apiImports, apiPc, classified, resA, resB>>
fsVars == <<fsMatches, fsPc, fsScore, fcCounts, fcPc, fcOut>>

\* the state of one scan run
VARIABLES
  pc,           \* "compile", "walk", "pool", "par", "done"
  opts,         \* ScanOptions: threads, compute_hashes, max_file_size_mb, progress
  touched,      \* the kinds of file-system access made so far below the root
  enumerated,   \* entries the directory walk has yielded
  entry,        \* the entry the walk's loop body holds, <<>> outside the loop
  paths,        \* the Vec<PathBuf> of regular files
  total,        \* paths.len()
  scanned,      \* AtomicU64
  matched,      \* AtomicU64
  denied,       \* AtomicU64
  skipped,      \* AtomicU64
  cbLog,        \* the calls the progress callback received, in the order made
  poolSize,     \* worker threads of the rayon pool, 0 before it is built
  tasks,        \* per path: where its closure call stands, and its locals
  result,       \* "none", "ok" (a report is returned), "err"
  failedAt,     \* the step whose error the caller received
  report,       \* the ScanReport returned
  first         \* <<>>, or in a second run over the same directory: what the
                \* first run found for each file, and its counts

scanVars ==
  <<pc, opts, touched, enumerated, entry, paths, total, scanned, matched, denied,
    skipped, cbLog, poolSize, tasks, result, failedAt, report, first>>

\* the GUI and its background jobs
VARIABLES
  app,          \* RevelationApp: busy, status, progress, job ids, results held
  rx,           \* the WorkerMsg values sent and not yet received
  workers       \* per job id: the thread spawned for it

guiVars == <<app, rx, workers>>

vars == <<apiVars, fsVars, scanVars, guiVars>>

\* RevelationApp::default() before it looks for the rules file
default_app ==
  [busy |-> FALSE, status |-> "Ready", progress_scanned |-> 0,
   progress_total |-> 0, job_id |-> 0, active_job |-> 0, loaded |-> {}]

GuiIdle ==
  /\ app = default_app
  /\ rx = <<>>
  /\ workers = <<>>

(* ----------------- the API classifier and risk scorer ----------------- *)
ApiIdle ==
  /\ apiImports = <<>>
  /\ apiPc = "idle"
  /\ classified = <<>>
  /\ resA = default_result
  /\ resB = default_result

\* classify_imports(&imports)
Classify ==
  /\ apiPc = "classify"
  /\ classified' = classify_imports(apiImports)
  /\ apiPc' = "first"
  /\ UNCHANGED <<apiImports, resA, resB, fsVars, scanVars, guiVars>>

\* score(&imports)
ScoreFirst ==
  /\ apiPc = "first"
  /\ \E r \in score_results(apiImports) : resA' = r
  /\ apiPc' = "second"
  /\ UNCHANGED <<apiImports, classified, resB, fsVars, scanVars, guiVars>>

\* score(&imports) once more, on the same list
ScoreSecond ==
  /\ apiPc = "second"
  /\ \E r \in score_results(apiImports) : resB' = r
  /\ apiPc' = "done"
  /\ UNCHANGED <<apiImports, classified, resA, fsVars, scanVars, guiVars>>

(* ------------------------- the finding scorer ------------------------- *)
FsIdle ==
  /\ fsMatches = <<>>
  /\ fsPc = "idle"
  /\ fsScore = 0

\* score_finding(&yara_hits)
ScoreFinding ==
  /\ fsPc = "call"
  /\ fsScore' = score_finding(fsMatches)
  /\ fsPc' = "done"
  /\ UNCHANGED <<fsMatches, fcCounts, fcPc, fcOut, apiVars, scanVars, guiVars>>

NoOutcome == [panicked |-> FALSE, value |-> 0]

FcIdle ==
  /\ fcCounts = [len |-> ToLimbs(0, W32), each |-> ToLimbs(0, W32)]
  /\ fcPc = "idle"
  /\ fcOut = NoOutcome

\* score_finding(&yara_hits) on a list given by its counts
ScoreFindingCounts ==
  /\ fcPc = "call"
  /\ \E o \in score_finding_outcomes(fcCounts.len, fcCounts.each) : fcOut' = o
  /\ fcPc' = "done"
  /\ UNCHANGED <<fcCounts, fsMatches, fsPc, fsScore, apiVars, scanVars, guiVars>>

(* ------------------------ the scan orchestrator ----------------------- *)
\* the values of max_file_size_mb the caller passes
MbChoices == {ToLimbs(1, W64)}

\* values of max_file_size_mb at the ends of its range: 0, 1, and 2^44, whose
\* product with 2^20 does not fit 64 bits
MbLimits == {ToLimbs(0, W64), ToLimbs(1, W64), <<0, 0, 4096, 0>>}

ScanOptions ==
  [threads : 0..MaxThreads, compute_hashes : BOOLEAN,
   max_file_size_mb : MbChoices, progress : BOOLEAN]

\* the options of the runs that probe the size limit
LimitOptions ==
  [threads : {1, 2}, compute_hashes : {FALSE}, max_file_size_mb : MbLimits,
   progress : {TRUE}]

NoReport == [scanned_files |-> 0, matched_files |-> 0, findings |-> <<>>]

\* opts.max_file_size_mb.saturating_mul(1024 * 1024)
max_bytes == SaturatingMul(SaturatingMul(opts.max_file_size_mb, 1024), 1024)

\* what the walk can yield for one entry
ErrorMessages == {msg_AccessDenied, msg_PermissionDenied, msg_NotFound}

\* a test of the error text as it stands, in its own case
is_denied_message_cased(msg) ==
  Contains(msg, s_access_is_denied) \/ Contains(msg, s_permission_denied)

\* the test of the walk's Err arm on err.to_string().to_lowercase()
is_denied_message(msg) ==
  LET s == to_ascii_lowercase(msg)
  IN  Contains(s, s_access_is_denied) \/ Contains(s, s_permission_denied)

\* the values of `entry`: Ok(e), with e.file_type().is_file(), or Err(err)
\* with the text of err
WalkEntries ==
  {[ok |-> TRUE, is_file |-> f, msg |-> <<>>] : f \in BOOLEAN}
    \cup {[ok |-> FALSE, is_file |-> FALSE, msg |-> m] : m \in ErrorMessages}

\* the arm of the walk's match that entry e takes
walk_arm(e) ==
  IF e.ok THEN (IF e.is_file THEN "file" ELSE "other")
  ELSE IF is_denied_message(e.msg) THEN "denied" ELSE "skipped"

\* the arms of the walk's match: a regular file, another entry, or an error
\* counted as access-denied or as other-skip
WalkOutcomes == {walk_arm(e) : e \in WalkEntries}

\* std::fs::metadata(p): an error, or the length of the file
MetaOutcomes ==
  {[ok |-> FALSE, len |-> ToLimbs(0, W64)]}
    \cup {[ok |-> TRUE, len |-> n] :
             n \in {ToLimbs(0, W64), max_bytes,
                    SaturatingAdd(max_bytes, ToLimbs(1, W64))}}

\* a size test that also skips the file whose size is max_bytes
size_skipped_from_limit(size) == size = ToLimbs(0, W64) \/ ~Less(size, max_bytes)

\* `if size == 0 || size > max_bytes`
size_skipped(size) == size = ToLimbs(0, W64) \/ Less(max_bytes, size)

\* a match of one rule with one string hit
hit_R1 == [rule |-> "R1", namespace |-> "default", strings |-> <<"$s">>]

\* match lists the matcher returns in a scan
ScanHitLists == {<<>>, <<hit_R1>>}

\* engine.scan_file(p): an error, or the matches
YaraOutcomes ==
  {[ok |-> FALSE, hits |-> <<>>]}
    \cup {[ok |-> TRUE, hits |-> h] : h \in ScanHitLists}

\* import tables the extractor yields in a scan
ScanImportLists == {<<>>, <<imp_CreateRemoteThread>>}

\* api_extractor::extract_imports(p): an error, or the import table
ExtractOutcomes ==
  {[ok |-> FALSE, imports |-> <<>>]}
    \cup {[ok |-> TRUE, imports |-> m] : m \in ScanImportLists}

\* an analysis that is kept only when the import table is not empty
api_option_nonempty(e) ==
  IF e.ok /\ e.imports # <<>> THEN {<<r>> : r \in score_results(e.imports)}
  ELSE {<<>>}

\* the arms of the match on the extraction result e: Some(score(&imports))
\* for Ok(imports), None for Err(_)
api_option(e) ==
  IF e.ok THEN {<<r>> : r \in score_results(e.imports)} ELSE {<<>>}

\* `match api_extractor::extract_imports(p) { Ok(imports) =>
\* Some(api_score::score(&imports)), Err(_) => None }`: the values of api
ApiOutcomes == UNION {api_option(e) : e \in ExtractOutcomes}

\* sha256_file(p).ok()
HashOutcomes == {<<>>, <<"sha256">>}

\* in a second run: what became of file i in the first run, and its finding
FirstFate(i) == first[1].tasks[i].fate

FirstFinding(i) == first[1].tasks[i].out[1]

\* std::fs::metadata on an unchanged file: a second run gets what the first got
MetaAgrees(i, m) ==
  IF first = <<>> THEN TRUE
  ELSE
    CASE FirstFate(i) = "stat_err" -> ~m.ok
      [] FirstFate(i) = "skip" -> m.ok /\ size_skipped(m.len)
      [] OTHER -> m.ok /\ ~size_skipped(m.len)

\* the matcher is deterministic: on an unchanged file a second run gets the
\* matches of the first
YaraAgrees(i, y) ==
  IF first = <<>> THEN TRUE
  ELSE
    CASE FirstFate(i) = "denied" -> ~y.ok
      [] FirstFate(i) = "clean" -> y.ok /\ y.hits = <<>>
      [] FirstFate(i) = "finding" -> y.ok /\ y.hits = FirstFinding(i).yara
      [] OTHER -> FALSE

\* the extractor is deterministic: a second run extracts the imports of the
\* first (score may still list the categories in another order)
ApiAgrees(i, a) ==
  IF first = <<>> THEN TRUE
  ELSE IF FirstFate(i) # "finding" THEN TRUE
  ELSE IF FirstFinding(i).api = <<>> THEN a = <<>>
  ELSE /\ a # <<>>
       /\ a[1].imports_total = FirstFinding(i).api[1].imports_total
       /\ a[1].top = FirstFinding(i).api[1].top

\* sha256_file on an unchanged file: a second run gets the digest of the first
HashAgrees(i, h) == IF first = <<>> THEN TRUE ELSE h = FirstFinding(i).sha256

\* the walk of an unchanged directory: a second run meets no more regular
\* files, and no more other entries, than the first
WalkAgrees(files, entries) ==
  IF first = <<>> THEN TRUE
  ELSE /\ files <= Len(first[1].tasks)
       /\ entries - files <= first[1].enumerated - Len(first[1].tasks)

\* a closure call that has not begun: its locals, the value it returns (out),
\* what became of the file (fate) and whether sha256_file was called on it
NewTask ==
  [pc |-> "todo", s |-> 0, after |-> "none", size |-> ToLimbs(0, W64),
   hits |-> <<>>, extracted |-> <<>>, api |-> <<>>, out |-> <<>>,
   fate |-> "none", hashed |-> FALSE]

\* the closure call returns v: its locals are gone
Returned(t, v) ==
  [NewTask EXCEPT !.pc = "done", !.out = v, !.fate = t.fate, !.hashed = t.hashed]

ScanIdle ==
  /\ pc = "idle"
  /\ opts = [threads |-> 1, compute_hashes |-> FALSE,
             max_file_size_mb |-> ToLimbs(1, W64), progress |-> FALSE]
  /\ touched = {}
  /\ enumerated = 0
  /\ entry = <<>>
  /\ paths = <<>>
  /\ total = 0
  /\ scanned = 0
  /\ matched = 0
  /\ denied = 0
  /\ skipped = 0
  /\ cbLog = <<>>
  /\ poolSize = 0
  /\ tasks = <<>>
  /\ result = "none"
  /\ failedAt = "none"
  /\ report = NoReport
  /\ first = <<>>

ScanInit ==
  /\ pc = "compile"
  /\ opts \in ScanOptions
  /\ touched = {}
  /\ enumerated = 0
  /\ entry = <<>>
  /\ paths = <<>>
  /\ total = 0
  /\ scanned = 0
  /\ matched = 0
  /\ denied = 0
  /\ skipped = 0
  /\ cbLog = <<>>
  /\ poolSize = 0
  /\ tasks = <<>>
  /\ result = "none"
  /\ failedAt = "none"
  /\ report = NoReport
  /\ first = <<>>

\* a caller that looks at the root before it compiles the rules
CompileRules_ProbeFirst ==
  /\ pc = "compile"
  /\ touched' = touched \cup {"enumerate"}
  /\ \E ok \in BOOLEAN :
       IF ok
       THEN /\ pc' = "walk"
            /\ UNCHANGED <<result, failedAt>>
       ELSE /\ pc' = "done"
            /\ result' = "err"
            /\ failedAt' = "compile"
  /\ UNCHANGED <<opts, enumerated, entry, paths, total, scanned, matched, denied,
                 skipped, cbLog, poolSize, tasks, report, first>>
  /\ UNCHANGED <<apiVars, fsVars, guiVars>>

\* the caller: YaraEngine::from_rules_file(&rules)?, then scan_files
CompileRules ==
  /\ pc = "compile"
  /\ \E ok \in BOOLEAN :
       IF ok
       THEN /\ pc' = "walk"
            /\ UNCHANGED <<result, failedAt>>
       ELSE /\ pc' = "done"
            /\ result' = "err"
            /\ failedAt' = "compile"
  /\ UNCHANGED <<opts, touched, enumerated, entry, paths, total, scanned, matched,
                 denied, skipped, cbLog, poolSize, tasks, report, first>>
  /\ UNCHANGED <<apiVars, fsVars, guiVars>>

\* one turn of `for entry in WalkDir::new(&opts.root)`
WalkEntry ==
  /\ pc = "walk"
  /\ enumerated < MaxEntries
  /\ enumerated' = enumerated + 1
  /\ touched' = touched \cup {"enumerate"}
  /\ \E e \in WalkEntries :
       /\ WalkAgrees(Len(paths) + (IF walk_arm(e) = "file" THEN 1 ELSE 0),
                     enumerated + 1)
       /\ entry' = <<e>>
       /\ paths' = IF walk_arm(e) = "file" THEN Append(paths, Len(paths) + 1)
                   ELSE paths
       /\ denied' = IF walk_arm(e) = "denied" THEN denied + 1 ELSE denied
       /\ skipped' = IF walk_arm(e) = "skipped" THEN skipped + 1 ELSE skipped
  /\ UNCHANGED <<pc, opts, total, scanned, matched, cbLog, poolSize, tasks,
                 result, failedAt, report, first>>
  /\ UNCHANGED <<apiVars, fsVars, guiVars>>

\* the walk is exhausted: total = paths.len(); cb(0, total)
Announce ==
  /\ pc = "walk"
  /\ IF first = <<>> THEN TRUE ELSE enumerated = first[1].enumerated
  /\ total' = Len(paths)
  /\ touched' = touched \cup {"enumerate"}
  /\ cbLog' = IF opts.progress
              THEN Append(cbLog, [s |-> 0, total |-> Len(paths)])
              ELSE cbLog
  /\ entry' = <<>>
  /\ pc' = "pool"
  /\ UNCHANGED <<opts, enumerated, paths, scanned, matched, denied, skipped,
                 poolSize, tasks, result, failedAt, report, first>>
  /\ UNCHANGED <<apiVars, fsVars, guiVars>>

\* rayon::ThreadPoolBuilder::new().num_threads(opts.threads).build()?
\* num_threads(0) lets rayon pick the size (the number of CPUs)
BuildPool ==
  /\ pc = "pool"
  /\ \E ok \in BOOLEAN :
       IF ok
       THEN /\ \E n \in 1..MaxThreads :
                 poolSize' = IF opts.threads = 0 THEN n ELSE opts.threads
            /\ tasks' = [i \in 1..Len(paths) |-> NewTask]
            /\ pc' = "par"
            /\ UNCHANGED <<result, failedAt>>
       ELSE /\ pc' = "done"
            /\ result' = "err"
            /\ failedAt' = "pool"
            /\ UNCHANGED <<poolSize, tasks>>
  /\ UNCHANGED <<opts, touched, enumerated, entry, paths, total, scanned, matched,
                 denied, skipped, cbLog, report, first>>
  /\ UNCHANGED <<apiVars, fsVars, guiVars>>

(* ------------------- the GUI and its background jobs ------------------ *)
\* next_job: job_id.wrapping_add(1), active_job = job_id
next_job(a) == [a EXCEPT !.job_id = a.job_id + 1, !.active_job = a.job_id + 1]

\* a receiver for which a progress message ends the job as well
on_message_progress_ends(a, m) ==
  IF m.job # a.active_job THEN a
  ELSE [a EXCEPT !.busy = FALSE, !.progress_scanned = m.scanned,
                 !.progress_total = m.total]

\* the arms of the match in pump_messages, each behind its
\* `if job != self.active_job { continue; }`
on_message(a, m) ==
  IF m.job # a.active_job THEN a
  ELSE CASE m.kind = "RuleUpdateDone" ->
              [a EXCEPT !.status = "Rules updated", !.busy = FALSE,
                        !.loaded = @ \cup {"rules"}]
         [] m.kind = "Progress" ->
              [a EXCEPT !.progress_scanned = m.scanned, !.progress_total = m.total]
         [] m.kind = "ScanDone" ->
              [a EXCEPT !.status = "Scan complete", !.busy = FALSE,
                        !.loaded = @ \cup {"report"}]
         [] m.kind = "EvtxDone" ->
              [a EXCEPT !.status = "EVTX parsed", !.busy = FALSE,
                        !.loaded = @ \cup {"evtx"}]
         [] m.kind = "Error" ->
              [a EXCEPT !.status = "Error", !.busy = FALSE]

RECURSIVE pump_messages(_, _)
\* pump_messages: `while let Ok(msg) = self.rx.try_recv()` over the queue q
pump_messages(a, q) ==
  IF q = <<>> THEN a ELSE pump_messages(on_message(a, Head(q)), Tail(q))

\* a WorkerMsg; scanned and total are those of Progress
WorkerMsg(kind, job, s, n) ==
  [kind |-> kind, job |-> job, scanned |-> s, total |-> n]

\* RevelationApp::default(): when the rules file is missing the constructor
\* itself calls start_rules_update
GuiInit ==
  /\ rx = <<>>
  /\ \E is_file \in BOOLEAN :
       IF is_file
       THEN app = default_app /\ workers = <<>>
       ELSE /\ app = next_job([default_app EXCEPT !.busy = TRUE,
                                                  !.status = "Updating rules..."])
            /\ workers = <<[kind |-> "rules", pc |-> "running", sent |-> 0]>>
  /\ ApiIdle
  /\ FsIdle
  /\ FcIdle
  /\ ScanIdle

\* start_rules_update: the thread spawned for a job is a record of its kind,
\* where it stands and the number of messages it has sent
StartRulesUpdate ==
  /\ app.busy \/ app.job_id < MaxJobs
  /\ IF app.busy
     THEN UNCHANGED <<app, workers>>
     ELSE /\ app' = next_job([app EXCEPT !.busy = TRUE,
                                         !.status = "Updating rules..."])
          /\ workers' = Append(workers, [kind |-> "rules", pc |-> "running",
                                         sent |-> 0])
  /\ UNCHANGED <<rx, apiVars, fsVars, scanVars>>

\* start_scan; is_file is self.rules_file.is_file()
StartScan ==
  /\ app.busy \/ app.job_id < MaxJobs
  /\ IF app.busy
     THEN UNCHANGED <<app, workers>>
     ELSE \E is_file \in BOOLEAN :
            IF ~is_file
            THEN /\ app' = [app EXCEPT !.status = "Rules file not found"]
                 /\ UNCHANGED workers
            ELSE /\ app' = next_job([app EXCEPT !.busy = TRUE,
                                                !.status = "Scanning...",
                                                !.progress_scanned = 0,
                                                !.progress_total = 0])
                 /\ workers' = Append(workers, [kind |-> "scan", pc |-> "running",
                                                sent |-> 0])
  /\ UNCHANGED <<rx, apiVars, fsVars, scanVars>>

\* start_evtx_parse; is_file is p.is_file() of the EVTX path
StartEvtxParse ==
  /\ app.busy \/ app.job_id < MaxJobs
  /\ IF app.busy
     THEN UNCHANGED <<app, workers>>
     ELSE \E is_file \in BOOLEAN :
            IF ~is_file
            THEN /\ app' = [app EXCEPT !.status = "EVTX file not found."]
                 /\ UNCHANGED workers
            ELSE /\ app' = next_job([app EXCEPT !.busy = TRUE,
                                                !.status = "Parsing EVTX...",
                                                !.loaded = @ \ {"evtx"}])
                 /\ workers' = Append(workers, [kind |-> "evtx", pc |-> "running",
                                                sent |-> 0])
  /\ UNCHANGED <<rx, apiVars, fsVars, scanVars>>

\* the messages the thread of job j can send next: its one terminal message,
\* or for a scan the next call of the progress callback. A scan sends Error
\* before any progress (the rules do not compile) or right after the call
\* (0, N) (the pool is not built), and ScanDone after the call (0, N) at
\* the earliest.
next_messages(w, j) ==
  CASE w.kind = "rules" ->
         {WorkerMsg(k, j, 0, 0) : k \in {"RuleUpdateDone", "Error"}}
    [] w.kind = "evtx" ->
         {WorkerMsg(k, j, 0, 0) : k \in {"EvtxDone", "Error"}}
    [] w.kind = "scan" ->
         (IF w.sent <= MaxFiles THEN {WorkerMsg("Progress", j, w.sent, MaxFiles)}
          ELSE {})
           \cup (IF w.sent <= 1 THEN {WorkerMsg("Error", j, 0, 0)} ELSE {})
           \cup (IF w.sent >= 1 THEN {WorkerMsg("ScanDone", j, 0, 0)} ELSE {})

\* the thread of job j sends a message: tx.send(..) or progress_tx.send(..)
WorkerSend(j) ==
  /\ workers[j].pc = "running"
  /\ \E m \in next_messages(workers[j], j) :
       /\ rx' = Append(rx, m)
       /\ workers' = [workers EXCEPT ![j] =
                        [@ EXCEPT !.sent = @ + 1,
                                  !.pc = IF m.kind = "Progress" THEN "running"
                                         ELSE "ended"]]
  /\ UNCHANGED <<app, apiVars, fsVars, scanVars>>

\* the thread of job j panics and sends nothing more
WorkerPanics(j) ==
  /\ workers[j].pc = "running"
  /\ workers' = [workers EXCEPT ![j] = [@ EXCEPT !.pc = "panicked"]]
  /\ UNCHANGED <<app, rx, apiVars, fsVars, scanVars>>

\* update(): self.pump_messages() drains the channel
PumpMessages ==
  /\ app' = pump_messages(app, rx)
  /\ rx' = <<>>
  /\ UNCHANGED <<workers, apiVars, fsVars, scanVars>>

GuiNext ==
  \/ StartRulesUpdate
  \/ StartScan
  \/ StartEvtxParse
  \/ \E j \in 1..Len(workers) : WorkerSend(j)
  \/ \E j \in 1..Len(workers) : WorkerPanics(j)
  \/ PumpMessages

\* the GUI, its buttons and the threads of its jobs
SpecGui == GuiInit /\ [][GuiNext]_vars

\* the same with the frame loop: update() runs again within 100 ms
\* (request_repaint_after), so a queued message is received
SpecGuiLive == SpecGui /\ WF_vars(PumpMessages)

\* closure calls that have begun and not returned
InFlight == {i \in 1..Len(tasks) : tasks[i].pc \notin {"todo", "done"}}

\* a worker of the pool is free to take another item of par_iter
WorkerFree == Cardinality(InFlight) < poolSize

\* the value fetch_add returns, without the 1 added to it
progress_value_old(old) == old

\* scanned.fetch_add(1, Ordering::Relaxed) + 1
progress_value(old) == old + 1

\* matched is bumped before the test for an empty match list
matched_increment_always(hits) == 1

\* `if yara_hits.is_empty() { return None; } matched.fetch_add(1, ..)`
matched_increment(hits) == IF hits = <<>> THEN 0 ELSE 1

TaskUnchanged ==
  /\ UNCHANGED <<pc, opts, enumerated, entry, paths, total, poolSize, result,
                 failedAt, report, first>>
  /\ UNCHANGED <<apiVars, fsVars, guiVars>>

\* the closure call t has bumped scanned from old: it calls cb(s, total) next if
\* there is a callback, and else goes on at `then` ("done": return None)
Counted(t, old, then) ==
  IF opts.progress
  THEN [t EXCEPT !.s = progress_value(old), !.after = then, !.pc = "cb"]
  ELSE IF then = "done" THEN Returned(t, <<>>) ELSE [t EXCEPT !.pc = then]

\* lines 64-69: let meta = std::fs::metadata(p).ok()?; and for a size of 0 or
\* above max_bytes, skipped.fetch_add(1) and let s = scanned.fetch_add(1) + 1
TaskMeta(i) ==
  /\ pc = "par"
  /\ tasks[i].pc = "todo"
  /\ WorkerFree
  /\ touched' = touched \cup {"stat"}
  /\ \E m \in MetaOutcomes :
       /\ MetaAgrees(i, m)
       /\ IF ~m.ok
          THEN /\ tasks' = [tasks EXCEPT ![i] =
                              Returned([@ EXCEPT !.fate = "stat_err"], <<>>)]
               /\ UNCHANGED <<skipped, scanned>>
          ELSE IF size_skipped(m.len)
          THEN /\ skipped' = skipped + 1
               /\ scanned' = scanned + 1
               /\ tasks' = [tasks EXCEPT ![i] =
                              Counted([@ EXCEPT !.size = m.len, !.fate = "skip"],
                                      scanned, "done")]
          ELSE /\ tasks' = [tasks EXCEPT ![i] =
                              [@ EXCEPT !.size = m.len, !.pc = "yara"]]
               /\ UNCHANGED <<skipped, scanned>>
  /\ UNCHANGED <<matched, denied, cbLog>>
  /\ TaskUnchanged

\* a matcher call whose failure returns None at once, as a failed
\* std::fs::metadata does, and counts nothing
TaskYara_ErrUncounted(i) ==
  /\ pc = "par"
  /\ tasks[i].pc = "yara"
  /\ touched' = touched \cup {"read"}
  /\ \E y \in YaraOutcomes :
       /\ YaraAgrees(i, y)
       /\ tasks' = [tasks EXCEPT ![i] =
                      IF y.ok
                      THEN [@ EXCEPT !.hits = y.hits, !.pc = "extract",
                                     !.fate = IF y.hits = <<>> THEN "clean"
                                              ELSE "finding"]
                      ELSE Returned([@ EXCEPT !.fate = "denied"], <<>>)]
  /\ UNCHANGED <<matched, denied, scanned, skipped, cbLog>>
  /\ TaskUnchanged

\* lines 76-80: engine.scan_file(p), and in its Err arm denied.fetch_add(1)
\* and let s = scanned.fetch_add(1) + 1
TaskYara(i) ==
  /\ pc = "par"
  /\ tasks[i].pc = "yara"
  /\ touched' = touched \cup {"read"}
  /\ \E y \in YaraOutcomes :
       /\ YaraAgrees(i, y)
       /\ IF y.ok
          THEN /\ tasks' = [tasks EXCEPT ![i] =
                              [@ EXCEPT !.hits = y.hits, !.pc = "extract",
                                        !.fate = IF y.hits = <<>> THEN "clean"
                                                 ELSE "finding"]]
               /\ UNCHANGED <<denied, scanned>>
          ELSE /\ denied' = denied + 1
               /\ scanned' = scanned + 1
               /\ tasks' = [tasks EXCEPT ![i] =
                              Counted([@ EXCEPT !.fate = "denied"], scanned, "done")]
  /\ UNCHANGED <<matched, skipped, cbLog>>
  /\ TaskUnchanged

\* an extraction step that leaves the scanned counter alone
TaskExtract_Uncounted(i) ==
  /\ pc = "par"
  /\ tasks[i].pc = "extract"
  /\ \E e \in ExtractOutcomes :
       \E a \in api_option(e) :
         /\ ApiAgrees(i, a)
         /\ tasks' = [tasks EXCEPT ![i] =
                        [@ EXCEPT !.extracted = <<e>>, !.api = a, !.pc = "hits"]]
  /\ UNCHANGED <<touched, scanned, matched, denied, skipped, cbLog>>
  /\ TaskUnchanged

\* lines 88-93: api_extractor::extract_imports(p), scored when it succeeds,
\* then let s = scanned.fetch_add(1) + 1
TaskExtract(i) ==
  /\ pc = "par"
  /\ tasks[i].pc = "extract"
  /\ scanned' = scanned + 1
  /\ \E e \in ExtractOutcomes :
       \E a \in api_option(e) :
         /\ ApiAgrees(i, a)
         /\ tasks' = [tasks EXCEPT ![i] =
                        Counted([@ EXCEPT !.extracted = <<e>>, !.api = a],
                                scanned, "hits")]
  /\ UNCHANGED <<touched, matched, denied, skipped, cbLog>>
  /\ TaskUnchanged

\* cb(s, total), in whichever of the three places the call stands
TaskCallback(i) ==
  /\ pc = "par"
  /\ tasks[i].pc = "cb"
  /\ cbLog' = Append(cbLog, [s |-> tasks[i].s, total |-> total])
  /\ tasks' = [tasks EXCEPT ![i] =
                 IF tasks[i].after = "done" THEN Returned(@, <<>>)
                 ELSE [@ EXCEPT !.pc = "hits", !.s = 0, !.after = "none"]]
  /\ UNCHANGED <<touched, scanned, matched, denied, skipped>>
  /\ TaskUnchanged

\* a finding whose score is the number of files counted before it was built
file_finding_counted(i, sha) ==
  [path |-> paths[i], sha256 |-> sha, size |-> tasks[i].size,
   yara |-> tasks[i].hits, score |-> scanned, api |-> tasks[i].api]

\* the FileFinding of path i
file_finding(i, sha) ==
  [path |-> paths[i], sha256 |-> sha, size |-> tasks[i].size,
   yara |-> tasks[i].hits, score |-> score_finding(tasks[i].hits),
   api |-> tasks[i].api]

\* a closure that hashes the file before it looks at the match list
TaskHits_HashFirst(i) ==
  /\ pc = "par"
  /\ tasks[i].pc = "hits"
  /\ matched' = matched + matched_increment(tasks[i].hits)
  /\ touched' = IF opts.compute_hashes THEN touched \cup {"read"} ELSE touched
  /\ \E h \in (IF opts.compute_hashes THEN HashOutcomes ELSE {<<>>}) :
       /\ HashAgrees(i, h)
       /\ tasks' = [tasks EXCEPT ![i] =
                      Returned([@ EXCEPT !.hashed = opts.compute_hashes],
                               IF tasks[i].hits = <<>> THEN <<>>
                               ELSE <<file_finding(i, h)>>)]
  /\ UNCHANGED <<scanned, denied, skipped, cbLog>>
  /\ TaskUnchanged

\* the empty-match test, matched.fetch_add(1), the optional hash, the finding
TaskHits(i) ==
  /\ pc = "par"
  /\ tasks[i].pc = "hits"
  /\ matched' = matched + matched_increment(tasks[i].hits)
  /\ IF tasks[i].hits = <<>>
     THEN /\ tasks' = [tasks EXCEPT ![i] = Returned(@, <<>>)]
          /\ UNCHANGED touched
     ELSE /\ \E h \in (IF opts.compute_hashes THEN HashOutcomes ELSE {<<>>}) :
               /\ HashAgrees(i, h)
               /\ tasks' = [tasks EXCEPT ![i] =
                              Returned([@ EXCEPT !.hashed = opts.compute_hashes],
                                       <<file_finding(i, h)>>)]
          /\ touched' = IF opts.compute_hashes THEN touched \cup {"read"}
                        ELSE touched
  /\ UNCHANGED <<scanned, denied, skipped, cbLog>>
  /\ TaskUnchanged

RECURSIVE CollectFrom(_)
\* filter_map(..).collect(): the Some values, in the order of paths
CollectFrom(i) ==
  IF i > Len(tasks) THEN <<>> ELSE tasks[i].out \o CollectFrom(i + 1)

\* a run that reports an error when a file was denied
scan_result_strict == IF denied > 0 THEN "err" ELSE "ok"

\* Ok(ScanReport { .. })
scan_result == "ok"

\* every closure call has returned: the report is built and returned
Collect ==
  /\ pc = "par"
  /\ \A i \in 1..Len(tasks) : tasks[i].pc = "done"
  /\ report' = [scanned_files |-> scanned, matched_files |-> matched,
                findings |-> CollectFrom(1)]
  /\ result' = scan_result
  /\ failedAt' = IF scan_result = "ok" THEN failedAt ELSE "file"
  /\ pc' = "done"
  /\ UNCHANGED <<opts, touched, enumerated, entry, paths, total, scanned, matched,
                 denied, skipped, cbLog, poolSize, tasks, first>>
  /\ UNCHANGED <<apiVars, fsVars, guiVars>>

\* the caller scans the same, unchanged directory once more, with any number
\* of worker threads
Rerun ==
  /\ pc = "done"
  /\ result = "ok"
  /\ first = <<>>
  /\ first' = <<[tasks |-> tasks, report |-> report, enumerated |-> enumerated,
                 poolSize |-> poolSize]>>
  /\ \E t \in 0..MaxThreads : opts' = [opts EXCEPT !.threads = t]
  /\ pc' = "compile"
  /\ touched' = {}
  /\ enumerated' = 0
  /\ entry' = <<>>
  /\ paths' = <<>>
  /\ total' = 0
  /\ scanned' = 0
  /\ matched' = 0
  /\ denied' = 0
  /\ skipped' = 0
  /\ cbLog' = <<>>
  /\ poolSize' = 0
  /\ tasks' = <<>>
  /\ result' = "none"
  /\ failedAt' = "none"
  /\ report' = NoReport
  /\ UNCHANGED <<apiVars, fsVars, guiVars>>

(* --------------------------- specifications --------------------------- *)
Init == ScanInit /\ ApiIdle /\ FsIdle /\ FcIdle /\ GuiIdle

Next ==
  \/ CompileRules
  \/ WalkEntry
  \/ Announce
  \/ BuildPool
  \/ \E i \in 1..Len(tasks) : TaskMeta(i)
  \/ \E i \in 1..Len(tasks) : TaskYara(i)
  \/ \E i \in 1..Len(tasks) : TaskExtract(i)
  \/ \E i \in 1..Len(tasks) : TaskCallback(i)
  \/ \E i \in 1..Len(tasks) : TaskHits(i)
  \/ Collect

\* one scan run: the caller compiles the rules, then scan_files
Spec == Init /\ [][Next]_vars

InitLimits ==
  /\ pc = "compile"
  /\ opts \in LimitOptions
  /\ touched = {}
  /\ enumerated = 0
  /\ entry = <<>>
  /\ paths = <<>>
  /\ total = 0
  /\ scanned = 0
  /\ matched = 0
  /\ denied = 0
  /\ skipped = 0
  /\ cbLog = <<>>
  /\ poolSize = 0
  /\ tasks = <<>>
  /\ result = "none"
  /\ failedAt = "none"
  /\ report = NoReport
  /\ first = <<>>
  /\ ApiIdle
  /\ FsIdle
  /\ FcIdle
  /\ GuiIdle

\* the options of the runs that are repeated: the first run has one worker,
\* the second any number of them
TwiceOptions ==
  [threads : {1}, compute_hashes : {TRUE}, max_file_size_mb : MbChoices,
   progress : {FALSE}]

InitTwice ==
  /\ pc = "compile"
  /\ opts \in TwiceOptions
  /\ touched = {}
  /\ enumerated = 0
  /\ entry = <<>>
  /\ paths = <<>>
  /\ total = 0
  /\ scanned = 0
  /\ matched = 0
  /\ denied = 0
  /\ skipped = 0
  /\ cbLog = <<>>
  /\ poolSize = 0
  /\ tasks = <<>>
  /\ result = "none"
  /\ failedAt = "none"
  /\ report = NoReport
  /\ first = <<>>
  /\ ApiIdle
  /\ FsIdle
  /\ FcIdle
  /\ GuiIdle

NextTwice ==
  \/ CompileRules
  \/ WalkEntry
  \/ Announce
  \/ BuildPool
  \/ \E i \in 1..Len(tasks) : TaskMeta(i)
  \/ \E i \in 1..Len(tasks) : TaskYara(i)
  \/ \E i \in 1..Len(tasks) : TaskExtract(i)
  \/ \E i \in 1..Len(tasks) : TaskHits(i)
  \/ Collect
  \/ Rerun

\* two scan runs over the same directory, one after the other
SpecTwice == InitTwice /\ [][NextTwice]_vars

\* scan runs with max_file_size_mb at the ends of its range
SpecLimits == InitLimits /\ [][Next]_vars

InitApi ==
  /\ apiImports \in ImportLists
  /\ apiPc = "classify"
  /\ classified = <<>>
  /\ resA = default_result
  /\ resB = default_result
  /\ FsIdle
  /\ FcIdle
  /\ GuiIdle
  /\ ScanIdle

ApiNext ==
  \/ Classify
  \/ ScoreFirst
  \/ ScoreSecond

\* the classifier and the risk scorer applied to one import list
SpecApi == InitApi /\ [][ApiNext]_vars

InitFinding ==
  /\ fsMatches \in MatchLists
  /\ fsPc = "call"
  /\ fsScore = 0
  /\ FcIdle
  /\ GuiIdle
  /\ ApiIdle
  /\ ScanIdle

FsNext == ScoreFinding

\* the finding scorer applied to one match list
SpecFinding == InitFinding /\ [][FsNext]_vars

InitCounts ==
  /\ fcCounts \in CountInputs
  /\ fcPc = "call"
  /\ fcOut = NoOutcome
  /\ FsIdle
  /\ ApiIdle
  /\ ScanIdle
  /\ GuiIdle

FcNext == ScoreFindingCounts

\* the finding scorer applied to one match list given by its counts
SpecCounts == InitCounts /\ [][FcNext]_vars

(* ------------------------------ claims -------------------------------- *)
\* the `scanned` arguments the callback received, in the order of the calls
CbValues == [k \in 1..Len(cbLog) |-> cbLog[k].s]

NonDecreasing(s) == \A j, k \in 1..Len(s) : j < k => s[j] <= s[k]

Fates(F) == {i \in 1..Len(tasks) : tasks[i].fate \in F}

\* C1: with a progress callback and two or more workers, the
\* `scanned` values arrive at the callback in non-decreasing order.
C1_Monotone ==
  (opts.progress /\ poolSize >= 2) => NonDecreasing(CbValues)

\* C2: when scan_files returns, scanned_files equals the number N of
\* enumerated files, whatever the outcome of each file.
C2_ScannedConvergesToN ==
  (pc = "done" /\ result = "ok") => report.scanned_files = total

\* every enumerated file was processed to the outcome its own steps drew, and
\* the report counts them
EveryFileProcessed ==
  /\ Len(tasks) = total
  /\ \A i \in 1..Len(tasks) :
       /\ tasks[i].pc = "done"
       /\ tasks[i].fate # "none"
       /\ tasks[i].out # <<>> <=> tasks[i].fate = "finding"
  /\ report.scanned_files = Cardinality(Fates({"skip", "denied", "clean", "finding"}))
  /\ report.matched_files = Cardinality(Fates({"finding"}))
  /\ Len(report.findings) = Cardinality(Fates({"finding"}))

C5_MatchedIsFindings ==
  (pc = "done" /\ result = "ok") =>
    /\ report.matched_files = Len(report.findings)
    /\ \A k \in 1..Len(report.findings) : Len(report.findings[k].yara) >= 1
    /\ \A i \in Fates({"clean"}) : tasks[i].out = <<>>
    /\ report.matched_files = Cardinality(Fates({"finding"}))

\* a report over a file without matches and a file with one
C5_Witness ==
  /\ pc = "done"
  /\ result = "ok"
  /\ Fates({"clean"}) # {}
  /\ Fates({"finding"}) # {}

InScore(v) == v \in 0..100

\* C6: total_score, every finding's score and every summed category score
\* are within [0, 100].
C6_Saturation ==
  apiPc \in {"second", "done"} =>
    /\ InScore(resA.total_score)
    /\ \A k \in 1..Len(resA.top) : InScore(resA.top[k].score)
    /\ \A k \in 1..Len(resA.category_scores) :
         /\ IsSmall(resA.category_scores[k][2])
         /\ InScore(resA.category_scores[k][2][1])

\* C7: two evaluations of score on the same import list agree in every field.
C7_Deterministic == apiPc = "done" => resA = resB

\* C8: an import that matches an injection primitive and also the process rule
\* (kernel32) or the registry rule (advapi32) is classified ProcessInjection.
C8_InjectionShadows ==
  apiPc \in {"first", "second", "done"} =>
    \A k \in 1..Len(apiImports) :
      LET imp == apiImports[k]
          dll == dll_lower(imp)
          api == name_lower(imp)
      IN  (/\ ~imp.is_ordinal
           /\ InjectionRule(api)
           /\ ProcessRule(dll, api) \/ RegistryRule(dll, api))
            => classified[k].category = "ProcessInjection"

\* C9: the named import CreateRemoteThread of kernel32.dll is classified
\* ProcessInjection and suspicious.
C9_CreateRemoteThread ==
  apiPc \in {"first", "second", "done"} =>
    \A k \in 1..Len(apiImports) :
      (/\ ~apiImports[k].is_ordinal
       /\ apiImports[k].dll = imp_CreateRemoteThread.dll
       /\ apiImports[k].name = imp_CreateRemoteThread.name)
        => (classified[k].category = "ProcessInjection" /\ classified[k].suspicious)

\* kernel32.dll!CreateRemoteThread has been classified
C9_Witness ==
  /\ apiPc = "first"
  /\ \E k \in 1..Len(apiImports) : apiImports[k] = imp_CreateRemoteThread

RECURSIVE TotalHits(_)
TotalHits(ms) ==
  IF ms = <<>> THEN 0 ELSE Len(Head(ms).strings) + TotalHits(Tail(ms))

RuleIds(ms) == {ms[k].rule : k \in 1..Len(ms)}

C11_NoOverflow ==
  (fcPc = "done" /\ fcCounts.len # ToLimbs(0, W32)) =>
    ~fcOut.panicked /\ fcOut.value \in 50..100

\* the points of one classified import: those of a finding, or none
PointsOf(c) ==
  IF c.suspicious
  THEN Min(100, base_points(c.category) + bonus_for(c.api))
  ELSE 0

RECURSIVE PointsIn(_, _, _)
\* the points of the suspicious imports lo..hi of a classified list, added
\* up as natural numbers
PointsIn(cs, lo, hi) ==
  IF lo > hi THEN 0
  ELSE IF lo = hi THEN PointsOf(cs[lo])
  ELSE PointsIn(cs, lo, (lo + hi) \div 2) + PointsIn(cs, (lo + hi) \div 2 + 1, hi)

PointsOfAll(cs) == PointsIn(cs, 1, Len(cs))

\* C12: total_score is min(100, the sum of the points of all suspicious
\* imports): the category totals are added uncapped and clamped once, and
\* the findings beyond the 50 kept in top_findings count too.
C12_TotalIsClampedSum ==
  apiPc = "done" => resA.total_score = Min(100, PointsOfAll(classified))

\* a result of severity High in which no category total reaches 85
C12_Witness ==
  /\ apiPc = "done"
  /\ resA.severity = "High"
  /\ Len(resA.category_scores) >= 2
  /\ \A k \in 1..Len(resA.category_scores) :
       Less(resA.category_scores[k][2], ToLimbs(85, W32))

\* C13: in every result of the scorer the severity is decided by total_score
\* alone: High iff >= 85, Medium iff in 60..84, Low iff in 1..59, None iff 0.
C13_SeverityOfTotal ==
  \A r \in {resA, resB} :
    /\ r.severity \in {"High", "Medium", "Low", "None"}
    /\ r.severity = "High" <=> r.total_score >= 85
    /\ r.severity = "Medium" <=> (60 <= r.total_score /\ r.total_score < 85)
    /\ r.severity = "Low" <=> (0 < r.total_score /\ r.total_score < 60)
    /\ r.severity = "None" <=> r.total_score = 0

\* a result whose total is exactly 85 has been returned
C13_Witness ==
  apiPc = "done" /\ resA.total_score = 85 /\ resA.severity = "High"

\* the suspicious imports of the list under analysis, in input order
Suspects == SelectSeq(classified, IsSuspicious)

\* the place that the claim gives the k-th suspicious import: behind every
\* one with more points and behind the earlier ones with the same points
PlaceOf(k) ==
  1 + Cardinality({j \in 1..Len(Suspects) :
                     \/ PointsOf(Suspects[j]) > PointsOf(Suspects[k])
                     \/ j < k /\ PointsOf(Suspects[j]) = PointsOf(Suspects[k])})

\* C14: top_findings holds the suspicious findings by descending score, at
\* most 50 of them, those of equal score in the order of the imports in the
\* input; suspicious_total counts every suspicious import.
C14_TopFindings ==
  apiPc = "done" =>
    /\ resA.suspicious_total = Len(Suspects)
    /\ Len(resA.top) = Min(50, Len(Suspects))
    /\ \A j, k \in 1..Len(resA.top) :
         j < k => resA.top[j].score >= resA.top[k].score
    /\ \A k \in 1..Len(Suspects) :
         PlaceOf(k) <= 50 =>
           /\ resA.top[PlaceOf(k)].api = Suspects[k].api
           /\ resA.top[PlaceOf(k)].category = Suspects[k].category
           /\ resA.top[PlaceOf(k)].score = PointsOf(Suspects[k])

\* more than 50 suspicious imports were scored, and two neighbours of equal
\* score in top_findings are different imports
C14_Witness ==
  /\ apiPc = "done"
  /\ resA.suspicious_total > 50
  /\ Len(resA.top) = 50
  /\ \E j \in 1..49 :
       /\ resA.top[j].score = resA.top[j + 1].score
       /\ resA.top[j].api # resA.top[j + 1].api

\* C15: for the empty import list the scorer returns is_executable = false,
\* total_score 0, severity None, imports_total 0, suspicious_total 0, and
\* empty top_findings and category_scores.
C15_EmptyList ==
  (apiPc = "done" /\ apiImports = <<>>) =>
    \A r \in {resA, resB} :
      /\ r.is_pe = FALSE
      /\ r.total_score = 0
      /\ r.severity = "None"
      /\ r.imports_total = 0
      /\ r.suspicious_total = 0
      /\ r.top = <<>>
      /\ r.category_scores = <<>>

\* the empty list has been scored
C15_Witness ==
  apiPc = "done" /\ apiImports = <<>> /\ resA.note = <<"No imports extracted">>

\* C16: for [ntdll.dll!VirtualAllocEx, ntdll.dll!WriteProcessMemory] both
\* imports are classified ProcessInjection with 45 + 20 = 65 points each,
\* total_score is 100 and severity is High.
C16_InjectionPair ==
  (apiPc = "done" /\ apiImports = <<imp_VirtualAllocEx, imp_WriteProcessMemory>>) =>
    /\ \A k \in 1..2 :
         /\ classified[k].category = "ProcessInjection"
         /\ classified[k].suspicious
    /\ Len(resA.top) = 2
    /\ \A k \in 1..2 :
         resA.top[k].category = "ProcessInjection" /\ resA.top[k].score = 65
    /\ resA.total_score = 100
    /\ resA.severity = "High"

\* that list has been scored
C16_Witness ==
  /\ apiPc = "done"
  /\ apiImports = <<imp_VirtualAllocEx, imp_WriteProcessMemory>>
  /\ resA.imports_total = 2

\* a finished run over one file that was within the size limit, on which the
\* matcher reported one rule with one string hit, and whose import
\* extraction failed
OneFileOneHit ==
  /\ pc = "done"
  /\ result = "ok"
  /\ total = 1
  /\ tasks[1].fate = "finding"
  /\ \A k \in 1..Len(report.findings) :
       /\ Len(report.findings[k].yara) = 1
       /\ Len(report.findings[k].yara[1].strings) = 1
       /\ report.findings[k].api = <<>>

\* C17, as stated: such a run reports scanned_files = 1, matched_files = 1
\* and exactly one finding, of score 60 and without an API analysis.
C17_ScoreSixty ==
  OneFileOneHit =>
    /\ report.scanned_files = 1
    /\ report.matched_files = 1
    /\ Len(report.findings) = 1
    /\ report.findings[1].score = 60
    /\ report.findings[1].api = <<>>

\* C17, amended: such a run reports scanned_files = 1, matched_files = 1 and
\* exactly one finding, of score 62 (50 + 10 for the rule + 2 for the string
\* hit) and without an API analysis.
C17_ScoreSixtyTwo ==
  OneFileOneHit =>
    /\ report.scanned_files = 1
    /\ report.matched_files = 1
    /\ Len(report.findings) = 1
    /\ report.findings[1].score = 62
    /\ report.findings[1].api = <<>>

\* such a run has returned its report
C17_Witness == OneFileOneHit /\ Len(report.findings) = 1

\* max_file_size_mb * 1048576 saturating in 64 bits, computed as the product
\* by 16 moved up one limb
Threshold ==
  LET a == <<0>> \o MulFrom(opts.max_file_size_mb, 16, 1, 0)
  IN  IF a[W64 + 1] = 0 /\ a[W64 + 2] = 0 THEN SubSeq(a, 1, W64)
      ELSE MaxLimbs(W64)

\* the closure call of file i holds the size it read
SizeKnown(i) == tasks[i].pc \notin {"todo", "done"}

\* file i is handed to the matcher
PassedToMatcher(i) ==
  tasks[i].pc = "yara" \/ tasks[i].fate \in {"denied", "clean", "finding"}

\* file i is skipped for its size: counted, and about to return None with
\* the matcher not invoked
SkippedForSize(i) ==
  /\ tasks[i].fate = "skip"
  /\ tasks[i].pc = "cb" /\ tasks[i].after = "done"
  /\ tasks[i].hits = <<>>

FindingFacts(fs) ==
  {[path |-> fs[k].path, score |-> fs[k].score, sha256 |-> fs[k].sha256,
    rules |-> {fs[k].yara[j].rule : j \in 1..Len(fs[k].yara)}] :
     k \in 1..Len(fs)}

\* C19: a second run over the same unchanged directory, with the same
\* deterministic matcher and extractor and compute_hash = true, reports the
\* same set of findings (paths, scores, hashes, rule ids) and the same
\* scanned and matched counts as the first, for every worker count and
\* every interleaving of the workers.
C19_SecondRunAgrees ==
  (first # <<>> /\ pc = "done" /\ result = "ok") =>
    /\ FindingFacts(report.findings) = FindingFacts(first[1].report.findings)
    /\ Len(report.findings) = Len(first[1].report.findings)
    /\ report.scanned_files = first[1].report.scanned_files
    /\ report.matched_files = first[1].report.matched_files

\* a second run with another number of workers has reported a finding, and
\* has passed over another file
C19_Witness ==
  /\ first # <<>>
  /\ pc = "done"
  /\ result = "ok"
  /\ poolSize # first[1].poolSize
  /\ Len(report.findings) >= 1
  /\ total >= 2

\* the rules of the claim on the lower-cased library and symbol of an import
RuleMatches(imp, r) ==
  LET lib == to_ascii_lowercase(imp.dll)
      sym == IF imp.name = <<>> THEN <<>> ELSE to_ascii_lowercase(imp.name[1])
  IN  CASE r = 1 -> imp.is_ordinal
        [] r = 2 -> Contains(lib, s_advapi32) /\ has_any(sym, RegistryNeedles)
        [] r = 3 -> Contains(lib, s_kernel32) /\ has_any(sym, ProcessNeedles)
        [] r = 4 -> has_any(sym, InjectionNeedles)
        [] r = 5 -> \/ has_any(sym, NetworkNeedles)
                    \/ Contains(lib, s_wininet)
                    \/ Contains(lib, s_winhttp)
                    \/ Contains(lib, s_ws2_32)
        [] r = 6 -> has_any(sym, CryptoNeedles)
        [] r = 7 -> has_any(sym, AntiDebugNeedles)
        [] OTHER -> TRUE

\* the first of the eight rules that matches
FirstRule(imp) ==
  CHOOSE r \in 1..8 :
    RuleMatches(imp, r) /\ \A q \in 1..(r - 1) : ~RuleMatches(imp, q)

RuleCategory ==
  <<"Other", "Registry", "Process", "ProcessInjection", "Networking", "Crypto",
    "AntiDebug", "Other">>

\* C20: every import is classified by the first rule that matches, in the
\* order ordinal, registry (advapi32), process (kernel32), injection,
\* networking (symbol or library), crypto, anti-debug, and else Other, not
\* suspicious, without reasons; matching is substring containment on the
\* lower-cased names.
C20_FirstMatchWins ==
  apiPc \in {"first", "second", "done"} =>
    /\ Len(classified) = Len(apiImports)
    /\ \A k \in 1..Len(apiImports) :
         LET r == FirstRule(apiImports[k])
         IN  /\ classified[k].category = RuleCategory[r]
             /\ classified[k].suspicious = (r # 8)
             /\ r = 8 <=> classified[k].reasons = <<>>

\* a symbol that the process rule takes before the injection rule sees it,
\* and an import that only its library makes Networking
C20_Witness ==
  /\ apiPc = "done"
  /\ apiImports = <<imp_WinExecOpenProcess, imp_FtpPutFileA>>
  /\ classified[1].category = "Process"
  /\ classified[2].category = "Networking"

\* the bonus of an import: 12 for an ordinal import, else 20 for one of the
\* three injection symbols, else 10 for one of the two download symbols
BonusOf(imp) ==
  LET sym == IF imp.name = <<>> THEN <<>> ELSE to_ascii_lowercase(imp.name[1])
  IN  IF imp.is_ordinal THEN 12
      ELSE IF \/ Contains(sym, <<"c","r","e","a","t","e","r","e","m","o","t","e","t","h","r","e","a","d">>)
              \/ Contains(sym, <<"w","r","i","t","e","p","r","o","c","e","s","s","m","e","m","o","r","y">>)
              \/ Contains(sym, <<"v","i","r","t","u","a","l","a","l","l","o","c","e","x">>)
        THEN 20
      ELSE IF \/ Contains(sym, <<"u","r","l","d","o","w","n","l","o","a","d","t","o","f","i","l","e">>)
              \/ Contains(sym, <<"h","t","t","p","s","e","n","d","r","e","q","u","e","s","t">>)
        THEN 10
      ELSE 0

RECURSIVE CategoryPointsIn(_, _, _, _)
\* the points the suspicious imports lo..hi of category cat add up to
CategoryPointsIn(cs, cat, lo, hi) ==
  IF lo > hi THEN 0
  ELSE IF lo = hi
       THEN IF cs[lo].suspicious /\ cs[lo].category = cat
            THEN Min(100, base_points(cat) + BonusOf(cs[lo].api))
            ELSE 0
       ELSE CategoryPointsIn(cs, cat, lo, (lo + hi) \div 2)
              + CategoryPointsIn(cs, cat, (lo + hi) \div 2 + 1, hi)

\* C21: every finding is made of a suspicious import and has
\* min(100, weight(category) + bonus) points, with bonus 12 for an ordinal
\* import, else 20 for createremotethread / writeprocessmemory /
\* virtualallocex, else 10 for urldownloadtofile / httpsendrequest, else 0;
\* an import that is not suspicious gives no finding, and the category
\* totals are the sums over the suspicious imports alone.
C21_PointsPerImport ==
  apiPc = "done" /\ apiImports # <<>> =>
    /\ resA.suspicious_total = Cardinality({k \in 1..Len(classified) : classified[k].suspicious})
    /\ \A k \in 1..Len(resA.top) :
         /\ \E j \in 1..Len(classified) :
              /\ classified[j].suspicious
              /\ classified[j].api = resA.top[k].api
              /\ classified[j].category = resA.top[k].category
         /\ resA.top[k].score =
              Min(100, base_points(resA.top[k].category) + BonusOf(resA.top[k].api))
    /\ {p[1] : p \in {resA.category_scores[k] : k \in 1..Len(resA.category_scores)}}
         = {classified[j].category : j \in {k \in 1..Len(classified) : classified[k].suspicious}}
    /\ \A k \in 1..Len(resA.category_scores) :
         resA.category_scores[k][2]
           = ToLimbs(CategoryPointsIn(classified, resA.category_scores[k][1], 1, Len(classified)), W32)

\* a scored list of a download import with bonus 10 next to an import that
\* is not suspicious
C21_Witness ==
  /\ apiPc = "done"
  /\ apiImports = <<imp_MessageBoxA, imp_URLDownloadToFileA>>
  /\ Len(resA.top) = 1
  /\ resA.top[1].score = 32
  /\ resA.category_scores = << <<"Networking", ToLimbs(32, W32)>> >>

\* the closure call of file i is at the matcher and the step makes the
\* matcher fail on it
MatcherFails(i) ==
  /\ i \in DOMAIN tasks /\ i \in DOMAIN tasks'
  /\ tasks[i].pc = "yara"
  /\ tasks'[i].fate = "denied"

\* the closure call of file i, on which the matcher failed, makes its
\* progress callback
DeniedCallback(i) ==
  /\ i \in DOMAIN tasks /\ i \in DOMAIN tasks'
  /\ tasks[i].fate = "denied"
  /\ tasks[i].pc = "cb"
  /\ tasks'[i] # tasks[i]

\* C22: a file on which the matcher fails adds exactly one to the
\* access-denied counter and one to scanned and nothing to matched, makes one
\* progress callback (when there is a callback) and returns no finding;
\* neither the import extraction nor the hashing is reached for it.
C22_MatcherFailure ==
  [][/\ \A i \in DOMAIN tasks :
          MatcherFails(i) =>
            /\ denied' = denied + 1
            /\ scanned' = scanned + 1
            /\ matched' = matched
            /\ cbLog' = cbLog
            /\ \A j \in DOMAIN tasks \ {i} : tasks'[j] = tasks[j]
            /\ IF opts.progress
               THEN /\ tasks'[i].pc = "cb"
                    /\ tasks'[i].s = scanned + 1
               ELSE tasks'[i].pc = "done"
     /\ \A i \in DOMAIN tasks :
          DeniedCallback(i) =>
            /\ cbLog' = Append(cbLog, [s |-> tasks[i].s, total |-> total])
            /\ tasks'[i].pc = "done"
            /\ UNCHANGED <<denied, scanned, matched>>
     /\ \A i \in DOMAIN tasks' :
          tasks'[i].fate = "denied" =>
            /\ tasks'[i].pc \in {"cb", "done"}
            /\ tasks'[i].pc = "cb" => tasks'[i].after = "done"
            /\ tasks'[i].out = <<>>
            /\ tasks'[i].api = <<>>
            /\ tasks'[i].hits = <<>>
     /\ (pc' = "done" /\ result' = "ok") =>
          /\ Len(report'.findings)
               = Cardinality({i \in DOMAIN tasks' : tasks'[i].fate = "finding"})
          /\ denied' >= Cardinality({i \in DOMAIN tasks' : tasks'[i].fate = "denied"})
          /\ scanned' >= Cardinality({i \in DOMAIN tasks' : tasks'[i].fate = "denied"})
    ]_vars

\* a finished run with a callback over one file on which the matcher failed
C22_Witness ==
  /\ pc = "done"
  /\ result = "ok"
  /\ opts.progress
  /\ Len(tasks) = 1
  /\ tasks[1].fate = "denied"
  /\ denied = 1
  /\ scanned = 1
  /\ matched = 0
  /\ cbLog = <<[s |-> 0, total |-> 1], [s |-> 1, total |-> 1]>>
  /\ report.findings = <<>>

\* the closure call of file i is past the import extraction
Extracted(t) ==
  \/ t.pc = "hits"
  \/ t.pc = "cb" /\ t.after = "hits"

\* C23: the analysis of a file is present iff its import extraction
\* succeeded; a failed extraction still counts the file as scanned and the
\* file still yields a finding, without analysis, when it has matches; an
\* extraction that succeeds with an empty import table gives a present
\* analysis with is_executable = false; the finding carries the analysis of
\* its file.
C23_AnalysisIffExtracted ==
  [][/\ \A i \in DOMAIN tasks' :
          Extracted(tasks'[i]) =>
            /\ tasks'[i].extracted # <<>>
            /\ tasks'[i].api # <<>> <=> tasks'[i].extracted[1].ok
            /\ tasks'[i].extracted[1].ok =>
                 /\ tasks'[i].api[1].is_pe <=> tasks'[i].extracted[1].imports # <<>>
                 /\ tasks'[i].api[1].imports_total = Len(tasks'[i].extracted[1].imports)
     /\ \A i \in DOMAIN tasks \cap DOMAIN tasks' :
          (tasks[i].pc = "extract" /\ tasks'[i] # tasks[i]) =>
            /\ scanned' = scanned + 1
            /\ Extracted(tasks'[i])
     /\ \A i \in DOMAIN tasks \cap DOMAIN tasks' :
          (tasks[i].pc = "hits" /\ tasks'[i] # tasks[i]) =>
            /\ tasks'[i].pc = "done"
            /\ IF tasks[i].hits = <<>> THEN tasks'[i].out = <<>>
               ELSE /\ Len(tasks'[i].out) = 1
                    /\ tasks'[i].out[1].api = tasks[i].api
                    /\ tasks'[i].out[1].yara = tasks[i].hits
     /\ (pc' = "done" /\ result' = "ok") =>
          \A k \in 1..Len(report'.findings) :
            \E i \in DOMAIN tasks' : tasks'[i].out = <<report'.findings[k]>>
    ]_vars

\* a report of two findings: the extraction failed for the file of the
\* first, and found an empty import table in the file of the second
C23_Witness ==
  /\ pc = "done"
  /\ result = "ok"
  /\ scanned = 2
  /\ Len(report.findings) = 2
  /\ report.findings[1].api = <<>>
  /\ report.findings[2].api # <<>>
  /\ ~report.findings[2].api[1].is_pe
  /\ report.findings[2].api[1].imports_total = 0

\* C24: without compute_hashes no finding has a content hash and
\* sha256_file is called on no file; with compute_hashes it is called only
\* on files with at least one match, and whether it fails or not the file
\* adds one to matched and yields its finding, the hash being absent when
\* it failed.
C24_HashOnlyMatches ==
  [][/\ \A i \in DOMAIN tasks' :
          /\ tasks'[i].hashed => opts'.compute_hashes /\ tasks'[i].fate = "finding"
          /\ (tasks'[i].out # <<>> /\ ~opts'.compute_hashes) =>
               tasks'[i].out[1].sha256 = <<>>
          /\ (tasks'[i].out # <<>> /\ tasks'[i].out[1].sha256 # <<>>) =>
               tasks'[i].hashed
     /\ \A i \in DOMAIN tasks \cap DOMAIN tasks' :
          (tasks[i].pc = "hits" /\ tasks'[i] # tasks[i] /\ tasks[i].hits # <<>>) =>
            /\ matched' = matched + 1
            /\ Len(tasks'[i].out) = 1
            /\ tasks'[i].hashed = opts.compute_hashes
     /\ (pc' = "done" /\ result' = "ok") =>
          /\ Len(report'.findings) = report'.matched_files
          /\ ~opts'.compute_hashes =>
               \A k \in 1..Len(report'.findings) : report'.findings[k].sha256 = <<>>
    ]_vars

\* a run with compute_hashes over a file with a match, whose hashing
\* failed, and a file without matches, which was not hashed
C24_Witness ==
  /\ pc = "done"
  /\ result = "ok"
  /\ opts.compute_hashes
  /\ Len(tasks) = 2
  /\ tasks[1].fate = "finding" /\ tasks[1].hashed
  /\ tasks[2].fate = "clean" /\ ~tasks[2].hashed
  /\ report.matched_files = 1
  /\ Len(report.findings) = 1
  /\ report.findings[1].sha256 = <<>>

\* C25: each failing entry of the walk adds one to exactly one counter, the
\* access-denied counter when its error text contains "access is denied" or
\* "permission denied" in any case and the other-skip counter otherwise; the
\* walk goes on after it; only regular files are appended to the file
\* list, and N is the length of that list.
C25_WalkCounts ==
  [][/\ (entry' # <<>> /\ enumerated' = enumerated + 1) =>
          LET e == entry'[1]
              text == to_ascii_lowercase(e.msg)
              deniedText == \/ Contains(text, s_access_is_denied)
                            \/ Contains(text, s_permission_denied)
          IN  /\ pc' = "walk"
              /\ total' = total
              /\ IF ~e.ok
                 THEN /\ paths' = paths
                      /\ denied' = denied + (IF deniedText THEN 1 ELSE 0)
                      /\ skipped' = skipped + (IF deniedText THEN 0 ELSE 1)
                 ELSE /\ UNCHANGED <<denied, skipped>>
                      /\ IF e.is_file
                         THEN Len(paths') = Len(paths) + 1
                                /\ SubSeq(paths', 1, Len(paths)) = paths
                         ELSE paths' = paths
     /\ (pc = "walk" /\ pc' # "walk") =>
          /\ paths' = paths
          /\ total' = Len(paths)
          /\ Len(paths) + denied + skipped <= enumerated
    ]_vars

\* the walk has listed a regular file after an entry that failed with an
\* access-denied error
C25_Witness ==
  /\ pc = "walk"
  /\ enumerated = 2
  /\ denied = 1
  /\ skipped = 0
  /\ Len(paths) = 1
  /\ entry # <<>>
  /\ entry[1].ok /\ entry[1].is_file

\* C26: at every moment of a scan run the number of files being processed
\* at once is at most the worker count the caller passed, whatever count
\* that is, 0 included.
C26_WithinWorkerCount ==
  pc = "par" => Cardinality(InFlight) <= opts.threads

\* the closure call t has made its one scanned.fetch_add
HasCounted(t) ==
  \/ t.pc \in {"cb", "hits"}
  \/ t.pc = "done" /\ t.fate \in {"skip", "denied", "clean", "finding"}

\* the closure call t has made its one matched.fetch_add
HasMatched(t) == t.pc = "done" /\ t.fate = "finding"

\* C27: in every state of a scan run matched <= scanned <= N: scanned is
\* the number of files that have counted themselves, once each, matched
\* the number of files that have added themselves to it, once each, and
\* each of those had counted itself as scanned before.
C27_CounterOrder ==
  /\ matched <= scanned
  /\ scanned <= total
  /\ total <= Len(paths)
  /\ pc \in {"par", "done"} /\ result # "err" =>
       /\ Len(tasks) = total
       /\ scanned = Cardinality({i \in DOMAIN tasks : HasCounted(tasks[i])})
       /\ matched = Cardinality({i \in DOMAIN tasks : HasMatched(tasks[i])})
       /\ \A i \in DOMAIN tasks : HasMatched(tasks[i]) => HasCounted(tasks[i])

\* two files in the list: one has been counted and has matched, the
\* other is still at the matcher
C27_Witness ==
  /\ pc = "par"
  /\ total = 2
  /\ scanned = 1
  /\ matched = 1
  /\ \E i \in DOMAIN tasks : tasks[i].pc = "yara"

\* the calls the callback received from the files
FileCalls == IF cbLog = <<>> THEN <<>> ELSE Tail(cbLog)

\* C28: with a callback, its first call is (0, N), made before any file is
\* processed; each file that has counted itself as scanned calls it exactly
\* once; the first arguments of those calls are pairwise distinct and at the
\* end of the run are exactly 1..scanned_files; the second argument is
\* always N. Without a callback there is no call.
C28_CallbackValues ==
  /\ ~opts.progress => cbLog = <<>>
  /\ opts.progress =>
       /\ pc \in {"compile", "walk"} => cbLog = <<>>
       /\ (pc \in {"pool", "par"} \/ (pc = "done" /\ failedAt # "compile")) =>
            /\ cbLog # <<>>
            /\ cbLog[1] = [s |-> 0, total |-> Len(paths)]
       /\ pc = "pool" => Len(cbLog) = 1 /\ scanned = 0
       /\ \A k \in DOMAIN cbLog : cbLog[k].total = Len(paths)
       /\ \A k \in DOMAIN FileCalls : FileCalls[k].s \in 1..scanned
       /\ \A j, k \in DOMAIN FileCalls : j # k => FileCalls[j].s # FileCalls[k].s
       /\ pc = "par" =>
            Len(FileCalls)
              = scanned - Cardinality({i \in DOMAIN tasks : tasks[i].pc = "cb"})
       /\ (pc = "done" /\ result = "ok") =>
            /\ Len(FileCalls) = report.scanned_files
            /\ {FileCalls[k].s : k \in DOMAIN FileCalls} = 1..report.scanned_files

\* a finished run of two workers in which the file that counted itself
\* second made its call first
C28_Witness ==
  /\ pc = "done"
  /\ result = "ok"
  /\ opts.progress
  /\ report.scanned_files = 2
  /\ cbLog = <<[s |-> 0, total |-> 2], [s |-> 2, total |-> 2], [s |-> 1, total |-> 2]>>

\* C29: the score of a finding, which score_finding computes from the
\* non-empty match list of its file, is at least 60, so the label export_csv
\* derives from it is MED or HIGH and never LOW.
C29_NeverLow ==
  (fcPc = "done" /\ fcCounts.len # ToLimbs(0, W32) /\ ~fcOut.panicked) =>
    /\ fcOut.value >= 60
    /\ csv_severity(fcOut.value) \in {"MED", "HIGH"}

\* every message a thread could send, whichever job id it carries
AllMessages ==
  {WorkerMsg(k, j, s, n) :
     k \in {"RuleUpdateDone", "Progress", "ScanDone", "EvtxDone", "Error"},
     j \in 0..MaxJobs, s \in 0..MaxFiles, n \in {0, MaxFiles}}

\* the terminal message of job j is in the channel
TerminalQueued(j) ==
  \E k \in DOMAIN rx : rx[k].job = j /\ rx[k].kind # "Progress"

\* jobs that were started and whose terminal message has not been received
Outstanding ==
  {j \in DOMAIN workers :
     workers[j].pc \in {"running", "panicked"} \/ TerminalQueued(j)}

\* C30: at most one background job of the GUI is outstanding at any time,
\* and it is the active job of a busy application; while busy no start_*
\* call starts a job or changes anything; busy becomes false only when the
\* terminal message of the active job is received; a message that carries
\* another job id than the active one changes nothing; and once a job has
\* sent its terminal message, busy becomes false.
C30_OneJobAtATime ==
  /\ [](/\ Cardinality(Outstanding) <= 1
        /\ \A j \in Outstanding : app.busy /\ app.active_job = j
        /\ \A m \in AllMessages :
             m.job # app.active_job => on_message(app, m) = app)
  /\ [][/\ app.busy =>
             /\ Len(workers') = Len(workers)
             /\ app'.job_id = app.job_id
             /\ app'.active_job = app.active_job
             /\ app' # app => rx # <<>> /\ rx' = <<>>
        /\ (app.busy /\ ~app'.busy) =>
             TerminalQueued(app.active_job) /\ rx' = <<>>
        /\ (~app.busy /\ app'.busy) =>
             /\ Len(workers') = Len(workers) + 1
             /\ app'.active_job = Len(workers')
       ]_vars
  /\ \A j \in 1..MaxJobs : TerminalQueued(j) ~> ~app.busy

\* the second job, a scan, has sent a progress message and its terminal
\* message, and the application, still busy, has received neither
C30_Witness ==
  /\ app.busy
  /\ app.active_job = 2
  /\ Len(workers) = 2
  /\ workers[2].kind = "scan"
  /\ workers[2].pc = "ended"
  /\ TerminalQueued(2)
  /\ Len(rx) >= 2
=============================================================================
